---- MODULE Spec2Model ----
(***************************************************************************)
(* A model of the grant-application generator: the multi-layer retrieval   *)
(* of EnhancedGrantVectorStore, the validate-and-retry loop of             *)
(* EnhancedGrantApplicationGenerator.generate_section, the per-section     *)
(* accumulation of generate_full_application and the "Generate             *)
(* Application" handler of app.py that calls them; and of the ingestion    *)
(* side: rebuild_database, the store calls it makes (add_document_enhanced,*)
(* clear_all_collections, get_all_stats), the five extraction functions    *)
(* with chunk_text, computed by a model of re.findall on character         *)
(* sequences, and calculate_voice_score on feature records and on texts;   *)
(* format_retrieval_for_prompt, whose output generate_section puts in the  *)
(* prompt of every attempt; refine_section of both generators; and the     *)
(* while loop of chunk_text, one iteration per step.                       *)
(*                                                                         *)
(* Conventions.  Python strings that the code compares or lower-cases are  *)
(* sequences of one-character strings.  None is the empty sequence and a   *)
(* present value x is <<x>> (Some(x)).  Temperatures are in hundredths     *)
(* (0.7 is 70), which keeps the order and the cap of the floating-point    *)
(* values the code computes; voice scores are in points.                   *)
(***************************************************************************)
EXTENDS Integers, Sequences, FiniteSets, TLC

VARIABLES
    collections,    \* EnhancedGrantVectorStore.collections: key -> set of stored fragments
    ret,            \* outcome of the latest retrieve_multi_layer call
    auto_validate,  \* EnhancedGrantApplicationGenerator.auto_validate
    auto_fix,       \* EnhancedGrantApplicationGenerator.auto_fix
    gs,             \* the frame of the running generate_section call
    calls,          \* history: the language-model calls of that generate_section call
    fa,             \* the frame of the running generate_full_application call
    app,            \* app.py: the handler's position and st.session_state
    rb,             \* the frame of the running rebuild_database call
    sa,             \* history: the store calls made directly and their outcomes
    vs,             \* the latest calculate_voice_score call and its result
    ex,             \* the latest extraction call: the document and its fragments
    fm,             \* the latest format_retrieval_for_prompt call and its output
    rf,             \* the latest refine_section call and what it returned
    ck              \* the frame of the running chunk_text call

vars == << collections, ret, auto_validate, auto_fix, gs, calls, fa, app,
           rb, sa, vs, ex, fm, rf, ck >>

-----------------------------------------------------------------------------
(* Bounds of the model.                                                    *)

MaxFrag == 2
MaxAttempts == 3
MaxSections == 2

-----------------------------------------------------------------------------
(* Python values.                                                          *)

None == << >>

Some(x) == << x >>

\* Python truthiness of an optional number: None and 0 are both falsy.
Truthy(opt) == opt # None /\ opt[1] # 0

Min(a, b) == IF a <= b THEN a ELSE b

Max(a, b) == IF a >= b THEN a ELSE b

UpperCase ==
    << "A", "B", "C", "D", "E", "F", "G", "H", "I", "J", "K", "L", "M",
       "N", "O", "P", "Q", "R", "S", "T", "U", "V", "W", "X", "Y", "Z" >>

LowerCase ==
    << "a", "b", "c", "d", "e", "f", "g", "h", "i", "j", "k", "l", "m",
       "n", "o", "p", "q", "r", "s", "t", "u", "v", "w", "x", "y", "z" >>

LowerChar(c) ==
    IF \E i \in 1..26 : UpperCase[i] = c
    THEN LowerCase[CHOOSE i \in 1..26 : UpperCase[i] = c]
    ELSE c

\* str.lower()
Lower(s) == [i \in 1..Len(s) |-> LowerChar(s[i])]

-----------------------------------------------------------------------------
(* Section names: config/settings.py DEFAULT_SECTIONS, the literals the    *)
(* code compares against, and other names a caller may pass.               *)

ExecutiveSummary ==
    << "E", "x", "e", "c", "u", "t", "i", "v", "e", " ", "S", "u", "m", "m", "a", "r", "y" >>

NeedStatement ==
    << "N", "e", "e", "d", " ", "S", "t", "a", "t", "e", "m", "e", "n", "t" >>

ProjectDescription ==
    << "P", "r", "o", "j", "e", "c", "t", " ", "D", "e", "s", "c", "r", "i", "p", "t", "i", "o", "n" >>

MethodologySection ==
    << "M", "e", "t", "h", "o", "d", "o", "l", "o", "g", "y" >>

EvaluationPlan ==
    << "E", "v", "a", "l", "u", "a", "t", "i", "o", "n", " ", "P", "l", "a", "n" >>

BudgetNarrative ==
    << "B", "u", "d", "g", "e", "t", " ", "N", "a", "r", "r", "a", "t", "i", "v", "e" >>

DEFAULT_SECTIONS ==
    << ExecutiveSummary, NeedStatement, ProjectDescription,
       MethodologySection, EvaluationPlan, BudgetNarrative >>

lit_need_statement ==
    << "n", "e", "e", "d", " ", "s", "t", "a", "t", "e", "m", "e", "n", "t" >>

lit_evaluation_plan ==
    << "e", "v", "a", "l", "u", "a", "t", "i", "o", "n", " ", "p", "l", "a", "n" >>

lit_methodology ==
    << "m", "e", "t", "h", "o", "d", "o", "l", "o", "g", "y" >>

lit_project_description ==
    << "p", "r", "o", "j", "e", "c", "t", " ", "d", "e", "s", "c", "r", "i", "p", "t", "i", "o", "n" >>

NeedStatementUpper ==
    << "N", "E", "E", "D", " ", "S", "T", "A", "T", "E", "M", "E", "N", "T" >>

EvaluationPlanMixed ==
    << "e", "v", "a", "l", "u", "a", "t", "i", "o", "n", " ", "P", "L", "A", "N" >>

MethodologyUpper ==
    << "M", "E", "T", "H", "O", "D", "O", "L", "O", "G", "Y" >>

ProjectDescriptionMixed ==
    << "P", "r", "o", "j", "e", "c", "t", " ", "D", "E", "S", "C", "R", "I", "P", "T", "I", "O", "N" >>

NeedStatementTrailingSpace ==
    << "N", "e", "e", "d", " ", "S", "t", "a", "t", "e", "m", "e", "n", "t", " " >>

NeedsStatement ==
    << "N", "e", "e", "d", "s", " ", "S", "t", "a", "t", "e", "m", "e", "n", "t" >>

MethodPrefix ==
    << "M", "e", "t", "h", "o", "d" >>

EmptyName ==
    <<  >>

\* The section names the model passes to retrieve_multi_layer and generate_section.
SectionNames ==
    { DEFAULT_SECTIONS[i] : i \in 1..Len(DEFAULT_SECTIONS) }
        \cup { lit_need_statement, lit_methodology,
               NeedStatementUpper, EvaluationPlanMixed, MethodologyUpper,
               ProjectDescriptionMixed, NeedStatementTrailingSpace,
               NeedsStatement, MethodPrefix, EmptyName }

-----------------------------------------------------------------------------
(* The multi-collection store.  A stored fragment is a number f; its       *)
(* embedding is the point f on a line, a query embedding is a point of     *)
(* Vectors and the distance is the absolute difference.                    *)

CollectionKeys ==
    << "full_content", "voice_phrases", "data_metrics",
       "participant_voices", "codesign_examples", "program_descriptions" >>

ResultKeys == { "content", "voice", "data", "quotes", "codesign", "programs" }

Fragments == 1..MaxFrag

Vectors == { 0, MaxFrag + 1 }

\* An Embedding Provider's behaviour during one retrieval: whether its first
\* call raises, else its answer to the first call and to every later call.
Providers == [ fails : BOOLEAN, first : Vectors, later : Vectors ]

Distance(vec, f) == IF vec >= f THEN vec - f ELSE f - vec

\* The fragment of S nearest to vec (the smaller id on a tie).
Nearest(S, vec) ==
    CHOOSE f \in S :
        \A g \in S :
            \/ Distance(vec, f) < Distance(vec, g)
            \/ Distance(vec, f) = Distance(vec, g) /\ f <= g

RECURSIVE NearestSeq(_, _, _)
NearestSeq(S, vec, n) ==
    IF n = 0 \/ S = {}
    THEN << >>
    ELSE LET f == Nearest(S, vec)
         IN  << f >> \o NearestSeq(S \ {f}, vec, n - 1)

\* The metadata stored with fragment f of a collection: the metadata of its
\* document and what add_document_enhanced or the extraction added to it.
MetadataOf(key, f) ==
    LET filename == "grant" \o ToString(f) \o ".txt"
    IN  CASE key = "full_content" ->
                 [ filename |-> filename, chunk_id |-> f ]
          [] key = "voice_phrases" ->
                 [ filename |-> filename, category |-> "mission" ]
          [] key = "data_metrics" ->
                 [ filename |-> filename, category |-> "statistics" ]
          [] key = "participant_voices" ->
                 [ filename |-> filename, category |-> "testimonial" ]
          [] key = "codesign_examples" ->
                 [ filename |-> filename, category |-> "codesign" ]
          [] key = "program_descriptions" ->
                 [ filename |-> filename, category |-> "program_description",
                   program |-> "Journey" ]

\* collection.query(query_embeddings=[vec], n_results=n): one result list per
\* query embedding, nearest first.
Query(store, key, vec, n) ==
    LET hits == NearestSeq(store[key], vec, n)
    IN  [ documents |-> << [i \in 1..Len(hits) |-> << key, hits[i] >>] >>,
          metadatas |-> << [i \in 1..Len(hits) |-> MetadataOf(key, hits[i])] >>,
          distances |-> << [i \in 1..Len(hits) |-> Distance(vec, hits[i])] >> ]

_format_results(raw_results) ==
    IF raw_results.documents # << >> /\ raw_results.documents[1] # << >>
    THEN [ i \in 1..Len(raw_results.documents[1]) |->
             [ text     |-> raw_results.documents[1][i],
               metadata |-> raw_results.metadatas[1][i],
               distance |-> raw_results.distances[1][i] ] ]
    ELSE << >>

\* Default result counts of retrieve_multi_layer.
n_content == 3
n_voice == 5
n_data == 3
n_quotes == 2
n_codesign == 2
n_programs == 3

QuoteSections == { lit_need_statement, lit_evaluation_plan }

CodesignSections == { lit_methodology, lit_project_description }

NeedsQuotes_CaseSensitive(section_name) == section_name \in QuoteSections

NeedsQuotes(section_name) == Lower(section_name) \in QuoteSections

NeedsCodesign(section_name) == Lower(section_name) \in CodesignSections

\* The provider's answer to its k-th call of one retrieval.
Answer(provider, k) == IF k = 1 THEN provider.first ELSE provider.later

EmbedCallOf_PerQuery(nth_query) == nth_query

\* The Embedding Provider call whose answer the nth collection query is
\* given: query_embedding is computed once, by the first and only call.
EmbedCallOf(nth_query) == 1

\* query_embeddings=[query_embedding]
QueryVector(provider, nth_query) == Answer(provider, EmbedCallOf(nth_query))

\* The number of Embedding Provider calls behind n_queries collection queries.
RECURSIVE EmbedCallCount(_)
EmbedCallCount(n_queries) ==
    IF n_queries = 0 THEN 0
    ELSE Max(EmbedCallOf(n_queries), EmbedCallCount(n_queries - 1))

\* One collection query of retrieve_multi_layer, as logged.
QueryCall(key, vec, n) == [ collection |-> key, vec |-> vec, n |-> n ]

\* The collection queries retrieve_multi_layer issues, in order.
QueryPlan(section_name) ==
    << << "full_content", n_content >>,
       << "voice_phrases", n_voice >>,
       << "data_metrics", n_data >> >>
    \o (IF NeedsQuotes(section_name)
        THEN << << "participant_voices", n_quotes >> >> ELSE << >>)
    \o (IF NeedsCodesign(section_name)
        THEN << << "codesign_examples", n_codesign >> >> ELSE << >>)
    \o << << "program_descriptions", n_programs >> >>

ResultKeyOf(key) ==
    CASE key = "full_content"         -> "content"
      [] key = "voice_phrases"        -> "voice"
      [] key = "data_metrics"         -> "data"
      [] key = "participant_voices"   -> "quotes"
      [] key = "codesign_examples"    -> "codesign"
      [] key = "program_descriptions" -> "programs"

NoRetrieval ==
    [ called |-> FALSE, raised |-> FALSE, section_name |-> EmptyName,
      embed_calls |-> 0, query_embedding |-> None, queries |-> << >>,
      results |-> [ k \in ResultKeys |-> << >> ] ]

\* retrieve_multi_layer(query, section_name) against `store`, with the
\* Embedding Provider behaving as `provider`.
retrieve_multi_layer(store, section_name, provider) ==
    IF provider.fails
    THEN [ NoRetrieval EXCEPT !.called = TRUE, !.raised = TRUE,
                              !.section_name = section_name, !.embed_calls = 1 ]
    ELSE
    LET plan == QueryPlan(section_name)
        queries == [ i \in 1..Len(plan) |->
                       QueryCall(plan[i][1], QueryVector(provider, i), plan[i][2]) ]
        answered(k) ==
            IF \E i \in 1..Len(queries) : ResultKeyOf(queries[i].collection) = k
            THEN LET i == CHOOSE j \in 1..Len(queries) :
                                ResultKeyOf(queries[j].collection) = k
                 IN  _format_results(
                         Query(store, queries[i].collection, queries[i].vec, queries[i].n))
            ELSE << >>
    IN  [ called |-> TRUE, raised |-> FALSE, section_name |-> section_name,
          embed_calls |-> EmbedCallCount(Len(plan)),
          query_embedding |-> Some(provider.first),
          queries |-> queries,
          results |-> [ k \in ResultKeys |-> answered(k) ] ]

-----------------------------------------------------------------------------
(* The Voice Validator.  A text is what the validator reads of it: the     *)
(* number of forbidden-phrase occurrences, whether "underserved" and       *)
(* "underestimated" occur, whether a co-design term occurs, the number of  *)
(* vague-word matches, whether a numeric pattern occurs, whether it is     *)
(* longer than 200 characters, and the number of signature-phrase groups   *)
(* with a phrase in it.                                                    *)

Text(buzz, vague, sig) ==
    [ buzz |-> buzz, underserved |-> FALSE, underestimated |-> FALSE,
      codesign |-> FALSE, vague |-> vague, numbers |-> TRUE, long |-> TRUE,
      sig |-> sig ]

\* len(check_ai_buzzwords(text)): one violation per occurrence.
check_ai_buzzwords(text) == text.buzz

\* The mutant of check_required_language: "underestimated" does not excuse
\* "underserved".
check_required_language_Unpaired(text, section_name) ==
    (IF text.underserved THEN 1 ELSE 0)
    + (IF Lower(section_name) \in CodesignSections /\ ~text.codesign THEN 1 ELSE 0)

\* len(check_required_language(text, section_name))
check_required_language(text, section_name) ==
    (IF text.underserved /\ ~text.underestimated THEN 1 ELSE 0)
    + (IF Lower(section_name) \in CodesignSections /\ ~text.codesign THEN 1 ELSE 0)

\* len(check_specificity(text)): the vague-word matches, then the
\* "[no specific data]" entry.
check_specificity(text) ==
    text.vague + (IF ~text.numbers /\ text.long THEN 1 ELSE 0)

\* The six grades, lowest first.
Grades ==
    << "D/F (Poor - does not sound like Cambio Labs)",
       "C (Weak - significant revisions needed)",
       "B (Acceptable - needs improvement)",
       "B+ (Good - some revisions needed)",
       "A (Very Good - minor tweaks needed)",
       "A+ (Excellent - sounds like Cambio Labs)" >>

\* The mutant of get_grade: the bands of B+ and B change places.
get_grade_SwappedBands(score) ==
    IF score >= 95 THEN Grades[6]
    ELSE IF score >= 90 THEN Grades[5]
    ELSE IF score >= 85 THEN Grades[3]
    ELSE IF score >= 80 THEN Grades[4]
    ELSE IF score >= 70 THEN Grades[2]
    ELSE Grades[1]

get_grade(score) ==
    IF score >= 95 THEN Grades[6]
    ELSE IF score >= 90 THEN Grades[5]
    ELSE IF score >= 85 THEN Grades[4]
    ELSE IF score >= 80 THEN Grades[3]
    ELSE IF score >= 70 THEN Grades[2]
    ELSE Grades[1]

\* min(100, max(0, score))
Clamp(score) == Min(100, Max(0, score))

calculate_voice_score(text, section_name) ==
    LET buzzword_violations == check_ai_buzzwords(text)
        missing_language == check_required_language(text, section_name)
        vague_language == check_specificity(text)
        counted == Min(5, vague_language)
        score == 100 - 5 * buzzword_violations - 10 * missing_language
                     - 3 * counted + 5 * text.sig
    IN  [ score |-> Clamp(score),
          grade |-> get_grade(Clamp(score)),
          issues |-> buzzword_violations + missing_language + counted,
          buzzwords |-> buzzword_violations,
          missing_required |-> missing_language,
          vague_count |-> vague_language ]

-----------------------------------------------------------------------------
(* format_retrieval_for_prompt.  The results dict is the sequence of its   *)
(* (key, list) pairs in insertion order; the output string is the sequence *)
(* of its pieces: literal texts of the code, the values inserted by the    *)
(* f-strings, and "\n" for every newline.                                  *)

\* dict.get(key): Some(value) of the pair with that key, or None.
Get(results, key) ==
    IF \E n \in 1..Len(results) : results[n][1] = key
    THEN Some(results[CHOOSE n \in 1..Len(results) : results[n][1] = key][2])
    ELSE None

\* metadata.get(key, default)
MetadataGet(metadata, key, default) ==
    IF key \in DOMAIN metadata THEN metadata[key] ELSE default

Shown_WhenPresent(results, key) == Get(results, key) # None

\* if results.get(key): the key is present and its list is not empty.
Shown(results, key) ==
    Get(results, key) # None /\ Get(results, key)[1] # << >>

Header(key) ==
    CASE key = "content"  -> << "=== SIMILAR GRANT CONTENT (for structure and detail) ===" >>
      [] key = "voice"    -> << "\n", "\n", "=== AUTHENTIC CAMBIO LABS PHRASES (use these exact patterns) ===" >>
      [] key = "data"     -> << "\n", "\n", "=== SPECIFIC DATA POINTS (use these exact numbers) ===" >>
      [] key = "quotes"   -> << "\n", "\n", "=== PARTICIPANT VOICES (consider including) ===" >>
      [] key = "codesign" -> << "\n", "\n", "=== CO-DESIGN LANGUAGE (MUST INCLUDE SIMILAR PHRASING) ===" >>
      [] key = "programs" -> << "\n", "\n", "=== PROGRAM DESCRIPTIONS (for accurate details) ===" >>

\* The entries appended to `output` for the i-th item of a collection.
ItemLines(key, item, i) ==
    CASE key = "content"  ->
             << << "\n", "Example ", ToString(i), " (from ",
                   MetadataGet(item.metadata, "filename", "Unknown"), "):" >>,
                << item.text >> >>
      [] key = "voice"    ->
             << << "- ", item.text, " [",
                   MetadataGet(item.metadata, "category", ""), "]" >> >>
      [] key = "data"     -> << << "- ", item.text >> >>
      [] key = "quotes"   -> << << "- \"", item.text, "\"" >> >>
      [] key = "codesign" -> << << "- ", item.text >> >>
      [] key = "programs" ->
             << << "\n", "[", MetadataGet(item.metadata, "program", ""), "]: ",
                   item.text >> >>

RECURSIVE LinesOfItems(_, _, _)
LinesOfItems(key, items, i) ==
    IF i > Len(items) THEN << >>
    ELSE ItemLines(key, items[i], i) \o LinesOfItems(key, items, i + 1)

\* The order of the six if-blocks of the function.
DisplayOrder == << "content", "voice", "data", "quotes", "codesign", "programs" >>

\* One if-block: the header and the items of a collection, or nothing.
Block(results, key) ==
    IF Shown(results, key)
    THEN << Header(key) >> \o LinesOfItems(key, Get(results, key)[1], 1)
    ELSE << >>

RECURSIVE OutputFrom(_, _)
OutputFrom(results, k) ==
    IF k > Len(DisplayOrder) THEN << >>
    ELSE Block(results, DisplayOrder[k]) \o OutputFrom(results, k + 1)

\* "\n".join(output)
RECURSIVE JoinLines(_)
JoinLines(output) ==
    IF output = << >> THEN << >>
    ELSE IF Len(output) = 1 THEN output[1]
    ELSE output[1] \o << "\n" >> \o JoinLines(Tail(output))

format_retrieval_for_prompt(results) == JoinLines(OutputFrom(results, 1))

\* The dict retrieve_multi_layer returns: it inserts the six keys in this
\* order, whatever the section.
ResultsDict(results) ==
    << << "content", results["content"] >>, << "voice", results["voice"] >>,
       << "data", results["data"] >>, << "quotes", results["quotes"] >>,
       << "codesign", results["codesign"] >>,
       << "programs", results["programs"] >> >>

-----------------------------------------------------------------------------
(* EnhancedGrantApplicationGenerator.generate_section                      *)

min_voice_score == 85

TEMPERATURE == 70

TemperatureCap == 90

TemperatureStep == 10

DefaultMaxAttempts == 3

IdleSection ==
    [ pc |-> "idle", section_name |-> EmptyName, temperature |-> TEMPERATURE,
      max_attempts |-> 0, attempt |-> 0, retrievals |-> 0,
      formatted_context |-> None,
      best_text |-> None, best_score |-> None, attempts |-> << >>,
      tokens_used |-> None, result |-> None ]

RECURSIVE SumTokens(_)
SumTokens(attempts) ==
    IF attempts = << >> THEN 0
    ELSE attempts[1].tokens + SumTokens(Tail(attempts))

\* "Track best attempt": the pair kept after an attempt scored `score`.
TrackBest(best_text, best_score, generated_text, score) ==
    IF score > best_score[1]
    THEN [ text |-> Some(generated_text), score |-> Some(score) ]
    ELSE [ text |-> best_text, score |-> best_score ]

GoodEnough_Strict(score, fix) == score > min_voice_score \/ ~fix

\* "Check if good enough": the break of a scored attempt.
GoodEnough(score, fix) == score >= min_voice_score \/ ~fix

NextTemperature_Uncapped(temperature) == temperature + TemperatureStep

\* "Adjust temperature slightly for variety"
NextTemperature(temperature) == Min(TemperatureCap, temperature + TemperatureStep)

Reraise_Always(attempt, max_attempts) == TRUE

\* The except clause re-raises on the last attempt only.
Reraise(attempt, max_attempts) == attempt = max_attempts - 1

\* "Final statistics" and the return statement.
Finish(g) ==
    [ g EXCEPT
        !.pc = "returned",
        !.result = Some([ text |-> g.best_text,
                          section_name |-> g.section_name,
                          voice_score |-> g.best_score,
                          tokens_used |-> IF g.attempts # << >>
                                          THEN SumTokens(g.attempts)
                                          ELSE g.tokens_used[1],
                          attempts |-> g.attempts ]) ]

\* From the call to the top of the attempt loop: retrieval, then the
\* initialisation of best_text, best_score and attempts.  A retrieval that
\* raises is outside the try; with max_attempts = 0 the loop body never
\* runs and "Final statistics" reads the unbound tokens_used.
EnterSection(section_name, temperature, max_attempts, retrieval) ==
    LET g == [ IdleSection EXCEPT
                 !.section_name = section_name,
                 !.temperature = temperature,
                 !.max_attempts = max_attempts,
                 !.retrievals = 1 ]
        formatted == [ g EXCEPT !.formatted_context =
                         Some(format_retrieval_for_prompt(
                                  ResultsDict(retrieval.results))) ]
    IN  IF retrieval.raised
        THEN [ g EXCEPT !.pc = "raised" ]
        ELSE IF max_attempts = 0
        THEN [ formatted EXCEPT !.pc = "raised" ]
        ELSE [ formatted EXCEPT !.pc = "attempt", !.best_score = Some(0) ]

\* The rest of a loop iteration whose model call returned generated_text.
AfterResponse(g, generated_text, tokens_used, validate, fix) ==
    IF validate
    THEN LET score == calculate_voice_score(generated_text, g.section_name).score
             best == TrackBest(g.best_text, g.best_score, generated_text, score)
             g1 == [ g EXCEPT
                       !.tokens_used = Some(tokens_used),
                       !.best_text = best.text,
                       !.best_score = best.score,
                       !.attempts = Append(@, [ attempt |-> g.attempt + 1,
                                                score |-> score,
                                                tokens |-> tokens_used ]) ]
         IN  IF GoodEnough(score, fix)
             THEN Finish(g1)
             ELSE IF g.attempt < g.max_attempts - 1
                  THEN [ g1 EXCEPT !.temperature = NextTemperature(g.temperature),
                                   !.attempt = g.attempt + 1 ]
                  ELSE Finish(g1)
    ELSE Finish([ g EXCEPT !.tokens_used = Some(tokens_used),
                           !.best_text = Some(generated_text),
                           !.best_score = None ])

\* The rest of a loop iteration whose model call raised.
AfterFailure(g) ==
    IF Reraise(g.attempt, g.max_attempts)
    THEN [ g EXCEPT !.pc = "raised" ]
    ELSE [ g EXCEPT !.attempt = g.attempt + 1 ]

\* get_enhanced_section_prompt(section_name, rfp_context, multi_layer_context):
\* the pieces of its f-string that vary from call to call.  The RFP context is
\* the same argument in every call of a run and the rest is fixed text.
get_enhanced_section_prompt(section_name, multi_layer_context) ==
    << "You are writing the ", section_name,
       " section for a Cambio Labs grant application.",
       "RETRIEVED EXAMPLES AND AUTHENTIC CAMBIO LABS CONTENT:",
       multi_layer_context >>

UserPrompt_FromAttempt(g) ==
    get_enhanced_section_prompt(g.section_name,
                                << g.attempt >> \o g.formatted_context[1])

\* user_prompt of the current iteration: built inside the loop, from the
\* arguments and the formatted_context computed before the loop.
UserPrompt(g) ==
    get_enhanced_section_prompt(g.section_name, g.formatted_context[1])

\* The history entry of one language-model call.
CallRecord(g, ok, generated_text, tokens_used) ==
    [ attempt |-> g.attempt, temperature |-> g.temperature,
      prompt |-> UserPrompt(g), ok |-> ok,
      text |-> generated_text, tokens |-> tokens_used ]

-----------------------------------------------------------------------------
(* EnhancedGrantApplicationGenerator.generate_full_application             *)

EmptyDict == << >>

\* d[k] = v
Put(d, k, v) == [ x \in (DOMAIN d) \cup {k} |-> IF x = k THEN v ELSE d[x] ]

\* round(total / n, 1), in tenths: Python rounds an exactly representable
\* tie to the even digit, and the only ties of a mean of whole scores over
\* at most four sections are the quarters.
Round1(total, n) ==
    LET q == (10 * total) \div n
        r == (10 * total) % n
    IN  IF 2 * r > n THEN q + 1
        ELSE IF 2 * r = n /\ q % 2 = 1 THEN q + 1
        ELSE q

NoApplication ==
    [ active |-> FALSE, sections |-> << >>, i |-> 0, temperature |-> TEMPERATURE,
      application |-> [ sections |-> EmptyDict, section_metadata |-> EmptyDict,
                        total_tokens |-> 0, sections_generated |-> 0,
                        voice_scores |-> EmptyDict, avg_voice_score |-> 0 ],
      total_score |-> 0, sections_with_scores |-> 0 ]

\* The frame at the top of the section loop.
EnterApplication(sections, temperature) ==
    [ NoApplication EXCEPT
        !.active = TRUE, !.sections = sections, !.i = 1,
        !.temperature = temperature,
        !.application.sections_generated = Len(sections) ]

\* `if result.get("voice_score"):`
HasScore(result) == Truthy(result.voice_score)

\* The body of the section loop after generate_section returned `result`.
CollectSection(f, result) ==
    LET section_name == f.sections[f.i]
        scored == HasScore(result)
    IN  [ f EXCEPT
            !.i = f.i + 1,
            !.application.sections = Put(@, section_name, result.text),
            !.application.total_tokens = @ + result.tokens_used,
            !.application.section_metadata =
                Put(@, section_name, [ voice_score |-> result.voice_score,
                                       tokens_used |-> result.tokens_used ]),
            !.application.voice_scores =
                IF scored THEN Put(@, section_name, result.voice_score[1]) ELSE @,
            !.total_score = IF scored THEN @ + result.voice_score[1] ELSE @,
            !.sections_with_scores = IF scored THEN @ + 1 ELSE @ ]

\* "Calculate average voice score" and the return value.
FinishApplication(f) ==
    IF f.sections_with_scores > 0
    THEN [ f.application EXCEPT
             !.avg_voice_score = Round1(f.total_score, f.sections_with_scores) ]
    ELSE f.application

-----------------------------------------------------------------------------
(* app.py: the "Generate Application" button.                              *)

IdleApp(generated_sections) ==
    [ pc |-> "idle", selected_sections |-> << >>, idx |-> 0,
      generated_sections |-> generated_sections,
      received |-> None, errors |-> << >>, completed |-> << >> ]

\* What the checkboxes can select: DEFAULT_SECTIONS in order, some left out.
Selections ==
    { [ k \in 1..Len(pick) |-> DEFAULT_SECTIONS[pick[k]] ] :
        pick \in { q \in UNION { [1..n -> 1..Len(DEFAULT_SECTIONS)] : n \in 1..MaxSections } :
                     \A a, b \in DOMAIN q : a < b => q[a] < q[b] } }

\* Showing the result of generate_full_application raises when a score or a
\* text is None: sum() over the section scores, html.escape(section_text).
ShowAllRaises(application) ==
    \/ \E n \in DOMAIN application.section_metadata :
           application.section_metadata[n].voice_score = None
    \/ \E n \in DOMAIN application.sections : application.sections[n] = None

\* Showing one section raises when its score or its text is None:
\* f"{voice_score:.0f}", html.escape(result["text"]).
ShowOneRaises(result) == result.voice_score = None \/ result.text = None

-----------------------------------------------------------------------------
(* Inputs of the model.                                                    *)

\* Store contents: each collection holds its first 0..MaxFrag fragments.
Stores == [ { CollectionKeys[i] : i \in 1..Len(CollectionKeys) } -> { 1..k : k \in 0..MaxFrag } ]

EmptyStore == [ k \in { CollectionKeys[i] : i \in 1..Len(CollectionKeys) } |-> {} ]

FullStore == [ k \in { CollectionKeys[i] : i \in 1..Len(CollectionKeys) } |-> Fragments ]

\* Texts the language model returns: scores 100, 85, 80, 80 and 0 in a
\* section without the co-design requirement.
ModelTexts == { Text(0, 0, 0), Text(3, 0, 0), Text(4, 0, 0), Text(1, 5, 0), Text(20, 0, 0) }

AppModelTexts == { Text(0, 0, 0), Text(4, 0, 0), Text(20, 0, 0) }

TokenCounts == { 100, 250 }

Temperatures == { TEMPERATURE, 85, 100 }

CallerSections == { ExecutiveSummary, NeedStatement, MethodologySection }

\* In the application handler the provider answers with one vector or raises.
AppProviders == { p \in Providers : p.first = 0 /\ p.later = 0 }

-----------------------------------------------------------------------------
(* Actions.                                                                *)

\* One call of retrieve_multi_layer on its own.
RetrieveMultiLayer(section_name, provider) ==
    /\ gs.pc = "idle" /\ app.pc = "idle"
    /\ ~ret.called
    /\ ret' = retrieve_multi_layer(collections, section_name, provider)
    /\ UNCHANGED << fm, rf, ck, rb, sa, vs, ex, collections, auto_validate, auto_fix, gs, calls, fa, app >>

\* A caller calls generate_section(section_name, rfp_context, temperature,
\* max_tokens, max_attempts): everything up to the first model call.
CallGenerateSection(section_name, temperature, max_attempts, provider) ==
    /\ gs.pc = "idle" /\ app.pc = "idle"
    /\ ret' = retrieve_multi_layer(collections, section_name, provider)
    /\ gs' = EnterSection(section_name, temperature, max_attempts, ret')
    /\ calls' = << >>
    /\ UNCHANGED << fm, rf, ck, rb, sa, vs, ex, collections, auto_validate, auto_fix, fa, app >>

\* The model call of the current attempt returns: the iteration runs to the
\* next model call or to the return.
ModelResponds(generated_text, tokens_used) ==
    /\ gs.pc = "attempt"
    /\ calls' = Append(calls, CallRecord(gs, TRUE, Some(generated_text), tokens_used))
    /\ gs' = AfterResponse(gs, generated_text, tokens_used, auto_validate, auto_fix)
    /\ UNCHANGED << fm, rf, ck, rb, sa, vs, ex, collections, ret, auto_validate, auto_fix, fa, app >>

\* The model call of the current attempt raises.
ModelFails ==
    /\ gs.pc = "attempt"
    /\ calls' = Append(calls, CallRecord(gs, FALSE, None, 0))
    /\ gs' = AfterFailure(gs)
    /\ UNCHANGED << fm, rf, ck, rb, sa, vs, ex, collections, ret, auto_validate, auto_fix, fa, app >>

\* The button in mode "Generate all sections at once": the handler calls
\* generate_full_application, which runs to its first generate_section call.
ClickGenerateAll(selected_sections) ==
    /\ app.pc = "idle" /\ gs.pc = "idle"
    /\ app' = [ app EXCEPT !.pc = "full", !.selected_sections = selected_sections ]
    /\ fa' = EnterApplication(selected_sections, TEMPERATURE)
    /\ UNCHANGED << fm, rf, ck, rb, sa, vs, ex, collections, ret, auto_validate, auto_fix, gs, calls >>

\* The button in mode "Generate sections one by one".
ClickOneByOne(selected_sections) ==
    /\ app.pc = "idle" /\ gs.pc = "idle"
    /\ app' = [ app EXCEPT !.pc = "single", !.selected_sections = selected_sections,
                           !.idx = 1, !.generated_sections = EmptyDict ]
    /\ UNCHANGED << fm, rf, ck, rb, sa, vs, ex, collections, ret, auto_validate, auto_fix, gs, calls, fa >>

\* generate_full_application calls generate_section for its next section.
ApplicationCallsSection(provider) ==
    /\ app.pc = "full" /\ gs.pc = "idle"
    /\ fa.i <= Len(fa.sections)
    /\ ret' = retrieve_multi_layer(collections, fa.sections[fa.i], provider)
    /\ gs' = EnterSection(fa.sections[fa.i], fa.temperature, DefaultMaxAttempts, ret')
    /\ calls' = << >>
    /\ UNCHANGED << fm, rf, ck, rb, sa, vs, ex, collections, auto_validate, auto_fix, fa, app >>

\* generate_section returned to generate_full_application: the loop body,
\* and after the last section the return to the handler, which stores and
\* shows the sections.
ApplicationCollects ==
    /\ app.pc = "full" /\ gs.pc = "returned"
    /\ LET f == CollectSection(fa, gs.result[1])
           done == [ section_name |-> gs.section_name, text |-> gs.result[1].text ]
       IN  IF f.i <= Len(f.sections)
           THEN /\ fa' = f
                /\ app' = [ app EXCEPT !.completed = Append(@, done) ]
           ELSE LET result == FinishApplication(f)
                IN  /\ fa' = NoApplication
                    /\ app' = [ app EXCEPT
                                  !.pc = IF ShowAllRaises(result) THEN "error" ELSE "shown",
                                  !.generated_sections = result.sections,
                                  !.received = Some(result),
                                  !.errors = IF ShowAllRaises(result)
                                             THEN Append(@, "application") ELSE @,
                                  !.completed = Append(@, done) ]
    /\ gs' = IdleSection
    /\ UNCHANGED << fm, rf, ck, rb, sa, vs, ex, collections, ret, auto_validate, auto_fix, calls >>

\* generate_section raised inside generate_full_application: nothing there
\* catches it, the handler's except shows the error.
ApplicationRaises ==
    /\ app.pc = "full" /\ gs.pc = "raised"
    /\ fa' = NoApplication
    /\ app' = [ app EXCEPT !.pc = "error", !.errors = Append(@, "application") ]
    /\ gs' = IdleSection
    /\ UNCHANGED << fm, rf, ck, rb, sa, vs, ex, collections, ret, auto_validate, auto_fix, calls >>

\* The one-by-one loop calls generate_section for its next section.
HandlerCallsSection(provider) ==
    /\ app.pc = "single" /\ gs.pc = "idle"
    /\ app.idx <= Len(app.selected_sections)
    /\ ret' = retrieve_multi_layer(collections, app.selected_sections[app.idx], provider)
    /\ gs' = EnterSection(app.selected_sections[app.idx], TEMPERATURE,
                          DefaultMaxAttempts, ret')
    /\ calls' = << >>
    /\ UNCHANGED << fm, rf, ck, rb, sa, vs, ex, collections, auto_validate, auto_fix, fa, app >>

\* The one-by-one loop after generate_section returned or raised.
HandlerAdvance(a) ==
    IF a.idx < Len(a.selected_sections)
    THEN [ a EXCEPT !.idx = a.idx + 1 ]
    ELSE [ a EXCEPT !.idx = a.idx + 1, !.pc = "shown" ]

HandlerCollects ==
    /\ app.pc = "single" /\ gs.pc = "returned"
    /\ LET result == gs.result[1]
           a == [ app EXCEPT
                    !.generated_sections = Put(@, gs.section_name, result.text),
                    !.errors = IF ShowOneRaises(result)
                               THEN Append(@, gs.section_name) ELSE @,
                    !.completed = Append(@, [ section_name |-> gs.section_name,
                                              text |-> result.text ]) ]
       IN  app' = HandlerAdvance(a)
    /\ gs' = IdleSection
    /\ UNCHANGED << fm, rf, ck, rb, sa, vs, ex, collections, ret, auto_validate, auto_fix, calls, fa >>

HandlerCatches ==
    /\ app.pc = "single" /\ gs.pc = "raised"
    /\ app' = HandlerAdvance([ app EXCEPT !.errors = Append(@, gs.section_name) ])
    /\ gs' = IdleSection
    /\ UNCHANGED << fm, rf, ck, rb, sa, vs, ex, collections, ret, auto_validate, auto_fix, calls, fa >>

-----------------------------------------------------------------------------
(* Specifications.                                                         *)

\* The values of the frames of the operations that are not running.
NoRebuild == [ pc |-> "idle" ]

NoStoreCalls == << >>

NoScoring == [ called |-> FALSE ]

NoExtraction == [ called |-> FALSE ]

NoFormatting == [ called |-> FALSE ]

NoRefinement == [ called |-> FALSE ]

NoChunking == [ pc |-> "idle" ]

InitCommon ==
    /\ ret = NoRetrieval
    /\ gs = IdleSection
    /\ calls = << >>
    /\ fa = NoApplication
    /\ rb = NoRebuild
    /\ sa = NoStoreCalls
    /\ vs = NoScoring
    /\ ex = NoExtraction
    /\ fm = NoFormatting
    /\ rf = NoRefinement
    /\ ck = NoChunking

\* generate_section called directly, with every configuration of the
\* generator and every argument of the input sets.
Init ==
    /\ InitCommon
    /\ collections \in { EmptyStore, FullStore }
    /\ auto_validate \in BOOLEAN
    /\ auto_fix \in BOOLEAN
    /\ app = IdleApp(EmptyDict)

Next ==
    \/ \E section_name \in CallerSections, temperature \in Temperatures,
          max_attempts \in 0..MaxAttempts, provider \in Providers :
           CallGenerateSection(section_name, temperature, max_attempts, provider)
    \/ \E generated_text \in ModelTexts, tokens_used \in TokenCounts :
           ModelResponds(generated_text, tokens_used)
    \/ ModelFails

Spec == Init /\ [][Next]_vars

\* The application handler of app.py in both generation modes, with the
\* generator initialize_system builds (auto_validate and auto_fix on).
InitApp ==
    /\ InitCommon
    /\ collections = FullStore
    /\ auto_validate = TRUE
    /\ auto_fix = TRUE
    /\ app \in { IdleApp(EmptyDict),
                 IdleApp(Put(EmptyDict, NeedStatement, Some(Text(0, 0, 0)))) }

NextApp ==
    \/ \E selected_sections \in Selections : ClickGenerateAll(selected_sections)
    \/ \E selected_sections \in Selections : ClickOneByOne(selected_sections)
    \/ \E provider \in AppProviders : ApplicationCallsSection(provider)
    \/ \E provider \in AppProviders : HandlerCallsSection(provider)
    \/ \E generated_text \in AppModelTexts, tokens_used \in TokenCounts :
           ModelResponds(generated_text, tokens_used)
    \/ ModelFails
    \/ ApplicationCollects
    \/ ApplicationRaises
    \/ HandlerCollects
    \/ HandlerCatches

SpecApp == InitApp /\ [][NextApp]_vars

\* retrieve_multi_layer on every store content and section name.
InitRetrieve ==
    /\ InitCommon
    /\ collections \in Stores
    /\ auto_validate = TRUE
    /\ auto_fix = TRUE
    /\ app = IdleApp(EmptyDict)

NextRetrieve ==
    \E section_name \in SectionNames, provider \in Providers :
        RetrieveMultiLayer(section_name, provider)

SpecRetrieve == InitRetrieve /\ [][NextRetrieve]_vars

-----------------------------------------------------------------------------
(* Ingestion into the store.  In the specifications of this part a stored  *)
(* fragment is a record of its id and its document text.  An id            *)
(* f"{filename}_{suffix}_{i}" is the record of its three parts: the        *)
(* index is the last run of digits of the id and the suffix precedes it,   *)
(* so two ids are equal exactly when the three parts are.  A document text *)
(* is what add_document_enhanced reads of it: a tag that tells two texts   *)
(* apart, whether it is blank, and the number of fragments chunk_text and  *)
(* each extraction function return for it; the i-th fragment of a text for *)
(* a collection is the triple of the tag, the collection and i.            *)

MaxFiles == 2
MaxCalls == 3

Keys == { CollectionKeys[k] : k \in 1..Len(CollectionKeys) }

\* The infix of the ids add_document_enhanced gives in each collection.
IdSuffix ==
    [ full_content |-> "chunk", voice_phrases |-> "voice", data_metrics |-> "data",
      participant_voices |-> "quote", codesign_examples |-> "codesign",
      program_descriptions |-> "program" ]

Profile(c, v, d, q, g, p) ==
    [ full_content |-> c, voice_phrases |-> v, data_metrics |-> d,
      participant_voices |-> q, codesign_examples |-> g,
      program_descriptions |-> p ]

TextA == [ tag |-> "A", blank |-> FALSE, frags |-> Profile(1, 2, 1, 0, 1, 1) ]

TextB == [ tag |-> "B", blank |-> FALSE, frags |-> Profile(2, 1, 0, 1, 0, 1) ]

\* A file of white space only: text.strip() is empty.
BlankText == [ tag |-> "blank", blank |-> TRUE, frags |-> Profile(0, 0, 0, 0, 0, 0) ]

FilenameList == << "a.txt", "b.txt", "c.txt", "d.txt" >>

\* The names of the files of the model: as many as a directory may hold.
Filenames == { FilenameList[n] : n \in 1..Min(MaxFiles, Len(FilenameList)) }

\* What can go wrong inside add_document_enhanced: nothing, or an exception
\* of the extraction, of embed_documents or of collection.add in one step.
NoFault == [ kind |-> "none", step |-> 0 ]

Faults ==
    { NoFault } \cup [ kind : { "extract", "embed", "store" }, step : 1..Len(CollectionKeys) ]

\* collection.add of the vector database on an id that is already stored:
\* the library either ignores the record (keeping the stored one) or raises
\* a duplicate-id error, depending on its version; it never replaces.
DuplicatePolicies == { "ignore", "raise" }

ItemsOf(text, filename, key) ==
    { [ id |-> [ filename |-> filename, suffix |-> IdSuffix[key], index |-> i - 1 ],
        document |-> << text.tag, key, i >> ] : i \in 1..text.frags[key] }

IdsOf(items) == { item.id : item \in items }

\* collection.add(ids, embeddings, documents, metadatas)
CollectionAdd(stored, items, on_duplicate) ==
    LET fresh == { item \in items : item.id \notin IdsOf(stored) }
    IN  IF fresh # items /\ on_duplicate = "raise"
        THEN [ raised |-> TRUE, stored |-> stored ]
        ELSE [ raised |-> FALSE, stored |-> stored \cup fresh ]

\* The mutant of Propagated: the steps after an exception run all the same.
Propagated_Never(acc) == FALSE

\* An exception raised in a step leaves add_document_enhanced at once.
Propagated(acc) == acc.raised

\* One of the six steps of add_document_enhanced: extract, and when there
\* are fragments embed them and add them; then record the count.
IngestStep(acc, k, text, filename, fault, on_duplicate) ==
    LET key == CollectionKeys[k]
        items == ItemsOf(text, filename, key)
        hit(kind) == fault.kind = kind /\ fault.step = k
        added == CollectionAdd(acc.store[key], items, on_duplicate)
        raise(call) == [ acc EXCEPT !.raised = TRUE, !.failed_step = k,
                                    !.failed_call = call ]
    IN  IF Propagated(acc) THEN acc
        ELSE IF hit("extract") THEN raise("extract")
        ELSE IF items = {}
             THEN [ acc EXCEPT !.counts = [ @ EXCEPT ![key] = 0 ] ]
        ELSE IF hit("embed") THEN raise("embed")
        ELSE IF hit("store") \/ added.raised THEN raise("store")
        ELSE [ acc EXCEPT !.store = [ @ EXCEPT ![key] = added.stored ],
                          !.counts = [ @ EXCEPT ![key] = Cardinality(items) ] ]

RECURSIVE IngestFrom(_, _, _, _, _, _)
IngestFrom(acc, k, text, filename, fault, on_duplicate) ==
    IF k > Len(CollectionKeys) THEN acc
    ELSE IngestFrom(IngestStep(acc, k, text, filename, fault, on_duplicate),
                    k + 1, text, filename, fault, on_duplicate)

\* add_document_enhanced(text, metadata): the store it leaves, whether it
\* raised (and in which step and call), and the counts it returns when it
\* did not.
add_document_enhanced(store, text, filename, fault, on_duplicate) ==
    IngestFrom([ store |-> store, counts |-> [ key \in Keys |-> 0 ],
                 raised |-> FALSE, failed_step |-> 0, failed_call |-> "none" ],
               1, text, filename, fault, on_duplicate)

RECURSIVE SumCounts(_, _)
SumCounts(counts, k) ==
    IF k > Len(CollectionKeys) THEN 0
    ELSE counts[CollectionKeys[k]] + SumCounts(counts, k + 1)

\* get_all_stats(): the count of every collection and their sum.
get_all_stats(store) ==
    LET stats == [ key \in Keys |-> Cardinality(store[key]) ]
    IN  [ counts |-> stats, total_items |-> SumCounts(stats, 1) ]

\* client.delete_collection(name) either deletes the collection or raises
\* and leaves it as it was.
DeleteOutcomes == { "deleted", "raised" }

delete_collection(persisted, key, outcome) ==
    IF outcome = "deleted" THEN [ persisted EXCEPT ![key] = None ] ELSE persisted

RECURSIVE DeleteFrom(_, _, _)
DeleteFrom(persisted, k, outcomes) ==
    IF k > Len(CollectionKeys) THEN persisted
    ELSE DeleteFrom(delete_collection(persisted, CollectionKeys[k],
                                      outcomes[CollectionKeys[k]]),
                    k + 1, outcomes)

\* client.get_or_create_collection(name) in __init__
get_or_create_collection(persisted, key) ==
    IF persisted[key] = None THEN {} ELSE persisted[key][1]

\* clear_all_collections(): every delete_collection in a try of its own,
\* then __init__ again.
clear_all_collections(store, outcomes) ==
    LET persisted == DeleteFrom([ key \in Keys |-> Some(store[key]) ], 1, outcomes)
    IN  [ key \in Keys |-> get_or_create_collection(persisted, key) ]

NoItems == [ key \in Keys |-> {} ]

\* The outcomes of the six deletions: all succeed, or one of them raises.
ClearOutcomes ==
    { [ key \in Keys |-> IF key = bad THEN "raised" ELSE "deleted" ] :
        bad \in Keys \cup { "none" } }

\* A store as earlier ingestions left it.
PriorStores ==
    { NoItems,
      add_document_enhanced(NoItems, TextA, "a.txt", NoFault, "ignore").store }

-----------------------------------------------------------------------------
(* rebuild_database(grants_directory, clear_existing)                      *)

lit_yes == << "y", "e", "s" >>

\* What the operator may type at the prompt.
Confirmations ==
    { lit_yes, << "Y", "e", "s" >>, << "n", "o" >>, << "y" >>,
      << " ", "y", "e", "s" >>, << >> }

\* The mutant of Confirmed: every answer clears.
Confirmed_Always(confirmation) == TRUE

\* if confirmation.lower() == "yes"
Confirmed(confirmation) == Lower(confirmation) = lit_yes

\* A file of the directory: its name and its text.
Files == [ filename : Filenames, text : { TextA, TextB, BlankText } ]

\* What can go wrong with one file: open/read raising an error other than a
\* decoding error, or a fault inside add_document_enhanced.
ReadFault == [ kind |-> "read", step |-> 0 ]

FileFaults == Faults \cup { ReadFault }

\* The position of a name in the order the directory lists its files.
Position(filename) == CHOOSE n \in 1..Len(FilenameList) : FilenameList[n] = filename

\* list(grants_path.glob("*.txt")) of a directory that exists: files of
\* different names, in the order of the directory.
Listings ==
    { files \in UNION { [ 1..n -> Files ] : n \in 0..MaxFiles } :
        \A i, j \in 1..Len(files) :
            i < j => Position(files[i].filename) < Position(files[j].filename) }

Directories ==
    { [ exists |-> FALSE, files |-> << >> ] } \cup { [ exists |-> TRUE, files |-> l ] : l \in Listings }

\* The frame after the clearing step: the two early returns, or the loop.
EnterLoop(frame) ==
    IF ~frame.directory.exists THEN [ frame EXCEPT !.pc = "done", !.returned = "no_directory" ]
    ELSE IF frame.directory.files = << >>
         THEN [ frame EXCEPT !.pc = "done", !.returned = "no_files" ]
    ELSE [ frame EXCEPT !.pc = "loop" ]

StartRebuild(store, directory, clear_existing) ==
    [ pc |-> "prompt", directory |-> directory, clear_existing |-> clear_existing,
      prior |-> store, confirmation |-> None, cleared |-> FALSE,
      i |-> 1, successful |-> 0, failed |-> 0, total_items |-> 0,
      last |-> None, returned |-> "running", stats |-> None ]

\* The mutant of Tally: a file that fails is not counted.
Tally_SkipsFailures(frame, ok, counts) ==
    IF ok THEN [ frame EXCEPT !.successful = @ + 1,
                              !.total_items = @ + SumCounts(counts, 1) ]
    ELSE frame

\* The counters after one file: total_items and successful after a
\* successful add_document_enhanced, failed after anything else.
Tally(frame, ok, counts) ==
    IF ok THEN [ frame EXCEPT !.successful = @ + 1,
                              !.total_items = @ + SumCounts(counts, 1) ]
    ELSE [ frame EXCEPT !.failed = @ + 1 ]

\* One iteration of the loop over the files, as a pair of the frame and
\* the store it leaves.  The frame keeps, as history, the outcome of the
\* latest file with the store and the counters before it.
ProcessOne(frame, store, fault, on_duplicate) ==
    LET file == frame.directory.files[frame.i]
        r == add_document_enhanced(store, file.text, file.filename, fault, on_duplicate)
        outcome == IF fault = ReadFault THEN "read_error"
                   ELSE IF file.text.blank THEN "empty"
                   ELSE IF r.raised THEN "exception"
                   ELSE "ok"
        ingest == outcome \in { "exception", "ok" }
        entry == [ filename |-> file.filename, text |-> file.text,
                   outcome |-> outcome,
                   before |-> store,
                   after |-> IF ingest THEN r.store ELSE store,
                   failed_step |-> IF ingest THEN r.failed_step ELSE 0,
                   failed_call |-> IF ingest THEN r.failed_call ELSE "none",
                   counts |-> r.counts,
                   successful |-> frame.successful, failed |-> frame.failed,
                   total_items |-> frame.total_items ]
        counted == Tally(frame, outcome = "ok", r.counts)
    IN  [ frame |-> [ counted EXCEPT !.i = @ + 1, !.last = Some(entry) ],
          store |-> entry.after ]

\* The end of the loop: the final statistics are read and the call returns.
AfterFile(frame, store) ==
    IF frame.i > Len(frame.directory.files)
    THEN [ frame EXCEPT !.pc = "done", !.returned = "complete",
                        !.stats = Some(get_all_stats(store)) ]
    ELSE frame

\* rebuild_database is called.  Without clear_existing there is no prompt.
CallRebuildDatabase(directory, clear_existing) ==
    /\ rb.pc = "idle"
    /\ rb' = LET frame == StartRebuild(collections, directory, clear_existing)
             IN  IF clear_existing THEN frame ELSE EnterLoop(frame)
    /\ UNCHANGED << fm, rf, ck, collections, ret, auto_validate, auto_fix, gs, calls, fa, app, sa, vs, ex >>

\* The operator answers the prompt: the collections are cleared, or the
\* call returns.
OperatorAnswers(confirmation, outcomes) ==
    /\ rb.pc = "prompt"
    /\ LET answered == [ rb EXCEPT !.confirmation = Some(confirmation) ]
       IN  IF Confirmed(confirmation)
           THEN /\ collections' = clear_all_collections(collections, outcomes)
                /\ rb' = EnterLoop([ answered EXCEPT !.cleared = TRUE ])
           ELSE /\ collections' = collections
                /\ rb' = [ answered EXCEPT !.pc = "done", !.returned = "aborted" ]
    /\ UNCHANGED << fm, rf, ck, ret, auto_validate, auto_fix, gs, calls, fa, app, sa, vs, ex >>

\* The loop body for the next file, and the statistics after the last one.
ProcessFile(fault, on_duplicate) ==
    /\ rb.pc = "loop"
    /\ LET step == ProcessOne(rb, collections, fault, on_duplicate)
       IN  /\ collections' = step.store
           /\ rb' = AfterFile(step.frame, step.store)
    /\ UNCHANGED << fm, rf, ck, ret, auto_validate, auto_fix, gs, calls, fa, app, sa, vs, ex >>

InitRebuild ==
    /\ fm = NoFormatting /\ rf = NoRefinement /\ ck = NoChunking
    /\ ret = NoRetrieval /\ gs = IdleSection /\ calls = << >> /\ fa = NoApplication
    /\ auto_validate = TRUE /\ auto_fix = TRUE /\ app = IdleApp(EmptyDict)
    /\ sa = NoStoreCalls /\ vs = NoScoring /\ ex = NoExtraction
    /\ rb = NoRebuild
    /\ collections \in PriorStores

NextRebuild ==
    \/ \E directory \in Directories, clear_existing \in BOOLEAN :
           CallRebuildDatabase(directory, clear_existing)
    \/ \E confirmation \in Confirmations, outcomes \in ClearOutcomes :
           OperatorAnswers(confirmation, outcomes)
    \/ \E fault \in FileFaults, on_duplicate \in DuplicatePolicies :
           ProcessFile(fault, on_duplicate)

SpecRebuild == InitRebuild /\ [][NextRebuild]_vars

-----------------------------------------------------------------------------
(* The store called directly: add_document_enhanced, clear_all_collections *)
(* and get_all_stats in any order, MaxCalls calls in all.                  *)

AddDocumentEnhanced(text, filename, on_duplicate) ==
    /\ Len(sa) < MaxCalls
    /\ LET r == add_document_enhanced(collections, text, filename, NoFault, on_duplicate)
       IN  /\ collections' = r.store
           /\ sa' = Append(sa, [ op |-> "add_document_enhanced", text |-> text,
                                 filename |-> filename, raised |-> r.raised,
                                 before |-> collections, after |-> r.store ])
    /\ UNCHANGED << fm, rf, ck, ret, auto_validate, auto_fix, gs, calls, fa, app, rb, vs, ex >>

ClearAllCollections(outcomes) ==
    /\ Len(sa) < MaxCalls
    /\ collections' = clear_all_collections(collections, outcomes)
    /\ sa' = Append(sa, [ op |-> "clear_all_collections", outcomes |-> outcomes,
                          before |-> collections,
                          after |-> clear_all_collections(collections, outcomes) ])
    /\ UNCHANGED << fm, rf, ck, ret, auto_validate, auto_fix, gs, calls, fa, app, rb, vs, ex >>

GetAllStats ==
    /\ Len(sa) < MaxCalls
    /\ sa' = Append(sa, [ op |-> "get_all_stats", stats |-> get_all_stats(collections),
                          before |-> collections, after |-> collections ])
    /\ UNCHANGED << fm, rf, ck, collections, ret, auto_validate, auto_fix, gs, calls, fa, app, rb, vs, ex >>

InitStore ==
    /\ fm = NoFormatting /\ rf = NoRefinement /\ ck = NoChunking
    /\ ret = NoRetrieval /\ gs = IdleSection /\ calls = << >> /\ fa = NoApplication
    /\ auto_validate = TRUE /\ auto_fix = TRUE /\ app = IdleApp(EmptyDict)
    /\ rb = NoRebuild /\ vs = NoScoring /\ ex = NoExtraction
    /\ sa = NoStoreCalls
    /\ collections = NoItems

NextStore ==
    \/ \E text \in { TextA, TextB }, filename \in Filenames,
          on_duplicate \in DuplicatePolicies :
           AddDocumentEnhanced(text, filename, on_duplicate)
    \/ \E outcomes \in ClearOutcomes : ClearAllCollections(outcomes)
    \/ GetAllStats

SpecStore == InitStore /\ [][NextStore]_vars

-----------------------------------------------------------------------------
(* The Voice Validator on a text given as its characters.  Features(s) is  *)
(* what the validator reads of the string s, each part found the way the   *)
(* code finds it: by substring search in the lower-cased text, by the      *)
(* word-boundary search of the vague words and by the numeric pattern.     *)

\* sub occurs in s at position i.
OccursAt(sub, s, i) ==
    /\ i + Len(sub) - 1 <= Len(s)
    /\ \A j \in 1..Len(sub) : s[i + j - 1] = sub[j]

\* sub in s
Contains(sub, s) == \E i \in 1..Len(s) : OccursAt(sub, s, i)

\* The number of places where text_lower.find(sub, start) finds sub when
\* start moves one past every match: overlapping occurrences count.
Occurrences(sub, s) == Cardinality({ i \in 1..Len(s) : OccursAt(sub, s, i) })

Digits == { "0", "1", "2", "3", "4", "5", "6", "7", "8", "9" }

\* The characters the pattern \w matches.
IsWordChar(c) ==
    \/ c \in Digits
    \/ c = "_"
    \/ \E i \in 1..26 : c = UpperCase[i] \/ c = LowerCase[i]

AI_BUZZWORDS_FORBIDDEN ==
    << << "c", "a", "t", "a", "l", "y", "z", "e" >>,
       << "l", "e", "v", "e", "r", "a", "g", "e" >>,
       << "o", "p", "t", "i", "m", "i", "z", "e" >>,
       << "s", "e", "a", "m", "l", "e", "s", "s" >>,
       << "s", "e", "a", "m", "l", "e", "s", "s", "l", "y" >>,
       << "r", "o", "b", "u", "s", "t" >>,
       << "s", "t", "a", "t", "e", "-", "o", "f", "-", "t", "h", "e", "-",
          "a", "r", "t" >>,
       << "c", "u", "t", "t", "i", "n", "g", "-", "e", "d", "g", "e" >>,
       << "i", "n", "n", "o", "v", "a", "t", "i", "v", "e" >>,
       << "t", "r", "a", "n", "s", "f", "o", "r", "m", "a", "t", "i", "v",
          "e" >>,
       << "g", "r", "o", "u", "n", "d", "b", "r", "e", "a", "k", "i", "n",
          "g" >>,
       << "r", "e", "v", "o", "l", "u", "t", "i", "o", "n", "a", "r", "y" >>,
       << "a", "t", " ", "t", "h", "e", " ", "h", "e", "a", "r", "t", " ",
          "o", "f", " ", "w", "h", "a", "t", " ", "w", "e", " ", "d", "o" >>,
       << "a", "t", " ", "t", "h", "e", " ", "c", "o", "r", "e", " ", "o",
          "f", " ", "o", "u", "r", " ", "m", "i", "s", "s", "i", "o", "n" >>,
       << "b", "r", "i", "d", "g", "e", " ", "t", "o", " ", "e", "m", "p",
          "o", "w", "e", "r", "m", "e", "n", "t" >>,
       << "p", "a", "t", "h", "w", "a", "y", " ", "t", "h", "a", "t", " ",
          "c", "h", "a", "l", "l", "e", "n", "g", "e", "s" >>,
       << "c", "h", "a", "l", "l", "e", "n", "g", "e", " ", "a", "n", "d",
          " ", "c", "h", "a", "n", "g", "e" >>,
       << "d", "e", "e", "p", "l", "y", " ", "r", "o", "o", "t", "e", "d",
          " ", "i", "n" >>,
       << "f", "a", "r", " ", "m", "o", "r", "e", " ", "t", "h", "a", "n" >>,
       << "t", "h", "e", " ", "c", "h", "a", "s", "m", " ", "b", "e", "t",
          "w", "e", "e", "n" >>,
       << "r", "e", "c", "t", "i", "f", "y", "i", "n", "g", " ", "t", "h",
          "e" >>,
       << "n", "o", "t", " ", "j", "u", "s", "t", ".", ".", ".", " ", "b",
          "u", "t", ".", ".", "." >>,
       << "e", "n", "s", "u", "r", "e" >>,
       << "f", "a", "c", "i", "l", "i", "t", "a", "t", "e" >>,
       << "e", "n", "h", "a", "n", "c", "e" >>,
       << "u", "t", "i", "l", "i", "z", "e" >>,
       << "i", "m", "p", "l", "e", "m", "e", "n", "t" >>,
       << "s", "t", "r", "a", "t", "e", "g", "i", "c", " ", "d", "e", "p",
          "l", "o", "y", "m", "e", "n", "t" >>,
       << "c", "a", "r", "e", "f", "u", "l", "l", "y", " ", "c", "r", "a",
          "f", "t", "e", "d" >>,
       << "t", "e", "s", "t", "a", "m", "e", "n", "t", " ", "t", "o" >>,
       << "c", "o", "m", "m", "i", "t", "m", "e", "n", "t", " ", "t", "o",
          " ", "e", "x", "c", "e", "l", "l", "e", "n", "c", "e" >>,
       << "p", "r", "o", "v", "e", "n", " ", "t", "r", "a", "c", "k", " ",
          "r", "e", "c", "o", "r", "d" >>,
       << "w", "e", " ", "a", "r", "e", " ", "p", "r", "o", "u", "d", " ",
          "t", "o" >>,
       << "w", "e", " ", "a", "r", "e", " ", "e", "x", "c", "i", "t", "e",
          "d", " ", "t", "o" >>,
       << "w", "e", " ", "a", "r", "e", " ", "c", "o", "m", "m", "i", "t",
          "t", "e", "d", " ", "t", "o" >>,
       << "w", "e", " ", "a", "r", "e", " ", "d", "e", "d", "i", "c", "a",
          "t", "e", "d", " ", "t", "o" >>,
       << "w", "e", " ", "a", "r", "e", " ", "d", "e", "e", "p", "l", "y",
          " ", "c", "o", "m", "m", "i", "t", "t", "e", "d" >>,
       << "w", "e", " ", "r", "e", "c", "o", "g", "n", "i", "z", "e" >>,
       << "w", "e", " ", "u", "n", "d", "e", "r", "s", "t", "a", "n", "d",
          " ", "t", "h", "a", "t" >>,
       << "w", "e", " ", "b", "e", "l", "i", "e", "v", "e", " ", "i", "n",
          " ", "t", "h", "e", " ", "p", "o", "w", "e", "r" >>,
       << "t", "r", "a", "n", "s", "f", "o", "r", "m", "a", "t", "i", "v",
          "e", " ", "m", "o", "v", "e", "m", "e", "n", "t" >>,
       << "p", "a", "t", "h", "w", "a", "y", "s", " ", "t", "h", "a", "t",
          " ", "c", "h", "a", "l", "l", "e", "n", "g", "e" >>,
       << "d", "e", "d", "i", "c", "a", "t", "e", "d", " ", "t", "o", " ",
          "c", "r", "e", "a", "t", "i", "n", "g" >>,
       << "d", "r", "i", "v", "e", "n", " ", "b", "y", " ", "a", " ", "m",
          "i", "s", "s", "i", "o", "n", " ", "t", "o" >>,
       << "c", "a", "t", "a", "l", "y", "z", "e", " ", "s", "i", "g", "n",
          "i", "f", "i", "c", "a", "n", "t", " ", "p", "o", "s", "i", "t",
          "i", "v", "e", " ", "c", "h", "a", "n", "g", "e" >>,
       << "g", "e", "n", "e", "r", "a", "t", "e", "d" >>,
       << "A", "I", "-", "g", "e", "n", "e", "r", "a", "t", "e", "d" >>,
       << "c", "r", "e", "a", "t", "e", "d", " ", "b", "y", " ", "A", "I" >>,
       << "p", "r", "o", "d", "u", "c", "e", "d", " ", "b", "y" >>,
       << "t", "h", "i", "s", " ", "a", "p", "p", "l", "i", "c", "a", "t",
          "i", "o", "n", " ", "w", "a", "s" >>,
       << "t", "h", "i", "s", " ", "p", "r", "o", "p", "o", "s", "a", "l",
          " ", "w", "a", "s", " ", "c", "r", "e", "a", "t", "e", "d" >> >>

Signature_mission_statements ==
    << << "W", "e", " ", "f", "i", "r", "m", "l", "y", " ", "b", "e", "l",
          "i", "e", "v", "e", " ", "t", "h", "a", "t", " ", "t", "h", "o",
          "s", "e", " ", "w", "h", "o", " ", "a", "r", "e", " ", "c", "l",
          "o", "s", "e", "s", "t", " ", "t", "o", " ", "t", "h", "e", " ",
          "i", "s", "s", "u", "e", "s", " ", "a", "r", "e", " ", "a", "l",
          "s", "o", " ", "b", "e", "s", "t", " ", "e", "q", "u", "i", "p",
          "p", "e", "d", " ", "t", "o", " ", "s", "o", "l", "v", "e", " ",
          "t", "h", "e", "m", "." >>,
       << "W", "h", "e", "n", " ", "p", "e", "o", "p", "l", "e", " ", "g",
          "a", "i", "n", " ", "a", "c", "c", "e", "s", "s", " ", "t", "o",
          " ", "t", "o", "o", "l", "s", ",", " ", "t", "r", "a", "i", "n",
          "i", "n", "g", ",", " ", "a", "n", "d", " ", "c", "o", "m", "m",
          "u", "n", "i", "t", "y", ",", " ", "t", "h", "e", "y", " ", "g",
          "e", "n", "e", "r", "a", "t", "e", " ", "t", "h", "e", " ", "s",
          "o", "l", "u", "t", "i", "o", "n", "s", " ", "t", "h", "e", "i",
          "r", " ", "n", "e", "i", "g", "h", "b", "o", "r", "h", "o", "o",
          "d", "s", " ", "n", "e", "e", "d", " ", "m", "o", "s", "t", "." >>,
       << "E", "n", "t", "r", "e", "p", "r", "e", "n", "e", "u", "r", "s",
          "h", "i", "p", " ", "i", "s", " ", "m", "o", "r", "e", " ", "t",
          "h", "a", "n", " ", "a", " ", "b", "u", "s", "i", "n", "e", "s",
          "s", " ", "p", "a", "t", "h", "em-dash", "i", "t", "'", "s", " ",
          "a", " ", "t", "o", "o", "l", " ", "f", "o", "r", " ", "r", "e",
          "c", "l", "a", "i", "m", "i", "n", "g", " ", "a", "g", "e", "n",
          "c", "y", " ", "a", "n", "d", " ", "r", "e", "s", "h", "a", "p",
          "i", "n", "g", " ", "l", "o", "c", "a", "l", " ", "e", "c", "o",
          "n", "o", "m", "i", "e", "s", "." >>,
       << "W", "e", " ", "c", "h", "a", "m", "p", "i", "o", "n", " ", "a",
          " ", "n", "e", "w", " ", "g", "e", "n", "e", "r", "a", "t", "i",
          "o", "n", " ", "o", "f", " ", "e", "n", "t", "r", "e", "p", "r",
          "e", "n", "e", "u", "r", "s", " ", "w", "h", "o", " ", "p", "r",
          "i", "o", "r", "i", "t", "i", "z", "e", " ", "a", "n", "d", " ",
          "u", "p", "l", "i", "f", "t", " ", "t", "h", "e", "i", "r", " ",
          "n", "e", "i", "g", "h", "b", "o", "r", "h", "o", "o", "d", "s",
          "." >>,
       << "W", "e", " ", "c", "r", "e", "a", "t", "e", " ", "t", "r", "a",
          "n", "s", "f", "o", "r", "m", "a", "t", "i", "v", "e", " ", "e",
          "d", "u", "c", "a", "t", "i", "o", "n", "a", "l", " ", "p", "r",
          "o", "g", "r", "a", "m", "s", ",", " ", "t", "e", "c", "h", "n",
          "o", "l", "o", "g", "y", ",", " ", "a", "n", "d", " ", "c", "r",
          "o", "s", "s", "-", "s", "e", "c", "t", "o", "r", "a", "l", " ",
          "p", "a", "r", "t", "n", "e", "r", "s", "h", "i", "p", "s", " ",
          "t", "h", "a", "t", " ", "e", "q", "u", "i", "p", " ", "p", "r",
          "o", "g", "r", "a", "m", " ", "p", "a", "r", "t", "i", "c", "i",
          "p", "a", "n", "t", "s", " ", "w", "i", "t", "h", " ", "t", "h",
          "e", " ", "s", "k", "i", "l", "l", "s", " ", "a", "n", "d", " ",
          "n", "e", "t", "w", "o", "r", "k", "s", " ", "t", "o", " ", "b",
          "e", "c", "o", "m", "e", " ", "f", "o", "u", "n", "d", "e", "r",
          "s", " ", "o", "f", " ", "o", "r", "g", "a", "n", "i", "z", "a",
          "t", "i", "o", "n", "s", " ", "d", "r", "i", "v", "e", "n", " ",
          "b", "y", " ", "s", "o", "c", "i", "a", "l", " ", "a", "n", "d",
          " ", "e", "n", "v", "i", "r", "o", "n", "m", "e", "n", "t", "a",
          "l", " ", "m", "i", "s", "s", "i", "o", "n", "s", "." >> >>

Signature_community_empowerment ==
    << << "F", "o", "r", " ", "t", "h", "o", "u", "s", "a", "n", "d", "s",
          " ", "o", "f", " ", "N", "e", "w", " ", "Y", "o", "r", "k", "e",
          "r", "s", " ", "l", "i", "v", "i", "n", "g", " ", "i", "n", " ",
          "p", "u", "b", "l", "i", "c", " ", "h", "o", "u", "s", "i", "n",
          "g", ",", " ", "e", "n", "t", "r", "e", "p", "r", "e", "n", "e",
          "u", "r", "s", "h", "i", "p", " ", "i", "s", " ", "o", "n", "e",
          " ", "o", "f", " ", "t", "h", "e", " ", "f", "e", "w", " ", "v",
          "i", "a", "b", "l", "e", " ", "p", "a", "t", "h", "s", " ", "t",
          "o", " ", "i", "n", "c", "o", "m", "e", " ", "a", "n", "d", " ",
          "o", "w", "n", "e", "r", "s", "h", "i", "p", "." >>,
       << "M", "o", "r", "e", " ", "t", "h", "a", "n", " ", "8", "0", "%",
          " ", "o", "f", " ", "2", "0", "2", "4", " ", "p", "a", "r", "t",
          "i", "c", "i", "p", "a", "n", "t", "s", " ", "r", "e", "p", "o",
          "r", "t", "e", "d", " ", "t", "h", "e", "y", " ", "w", "o", "u",
          "l", "d", " ", "n", "o", "t", " ", "h", "a", "v", "e", " ", "p",
          "u", "r", "s", "u", "e", "d", " ", "t", "h", "e", "i", "r", " ",
          "v", "e", "n", "t", "u", "r", "e", " ", "w", "i", "t", "h", "o",
          "u", "t", " ", "t", "h", "i", "s", " ", "p", "r", "o", "g", "r",
          "a", "m", "." >>,
       << "B", "y", " ", "e", "m", "b", "e", "d", "d", "i", "n", "g", " ",
          "o", "u", "r", " ", "a", "c", "c", "e", "l", "e", "r", "a", "t",
          "o", "r", " ", "i", "n", " ", "t", "r", "u", "s", "t", "e", "d",
          " ", "c", "o", "m", "m", "u", "n", "i", "t", "y", " ", "s", "p",
          "a", "c", "e", "s", ",", " ", "e", "m", "p", "l", "o", "y", "i",
          "n", "g", " ", "N", "Y", "C", "H", "A", " ", "a", "l", "u", "m",
          "n", "i", " ", "a", "s", " ", "i", "n", "s", "t", "r", "u", "c",
          "t", "o", "r", "s", ",", " ", "a", "n", "d", " ", "b", "y", " ",
          "p", "r", "o", "v", "i", "d", "i", "n", "g", " ", "a", "c", "c",
          "e", "s", "s", " ", "t", "o", " ", "t", "e", "c", "h", " ", "a",
          "n", "d", " ", "c", "o", "a", "c", "h", "i", "n", "g", ",", " ",
          "w", "e", " ", "c", "r", "e", "a", "t", "e", " ", "a", " ", "c",
          "u", "l", "t", "u", "r", "a", "l", "l", "y", " ", "r", "e", "s",
          "p", "o", "n", "s", "i", "v", "e", ",", " ", "h", "i", "g", "h",
          "-", "i", "m", "p", "a", "c", "t", " ", "a", "c", "c", "e", "l",
          "e", "r", "a", "t", "o", "r", "." >>,
       << "W", "e", " ", "i", "n", "v", "i", "t", "e", " ", "a", "n", "d",
          " ", "i", "n", "t", "e", "g", "r", "a", "t", "e", " ", "t", "h",
          "e", " ", "f", "e", "e", "d", "b", "a", "c", "k", " ", "o", "f",
          " ", "o", "u", "r", " ", "c", "o", "m", "m", "u", "n", "i", "t",
          "y", " ", "m", "e", "m", "b", "e", "r", "s", ",", " ", "w", "h",
          "o", " ", "w", "e", " ", "c", "e", "n", "t", "e", "r", " ", "a",
          "s", " ", "e", "x", "p", "e", "r", "t", "s", "." >>,
       << "W", "i", "t", "h", " ", "y", "o", "u", "r", " ", "s", "u", "p",
          "p", "o", "r", "t", ",", " ", "w", "e", " ", "w", "i", "l", "l",
          " ", "c", "o", "n", "t", "i", "n", "u", "e", " ", "t", "o", " ",
          "s", "c", "a", "l", "e", " ", "a", " ", "m", "o", "d", "e", "l",
          " ", "t", "h", "a", "t", " ", "t", "r", "a", "n", "s", "f", "o",
          "r", "m", "s", " ", "u", "n", "t", "a", "p", "p", "e", "d", " ",
          "p", "o", "t", "e", "n", "t", "i", "a", "l", " ", "i", "n", "t",
          "o", " ", "c", "o", "m", "m", "u", "n", "i", "t", "y", "-", "p",
          "o", "w", "e", "r", "e", "d", " ", "p", "r", "o", "s", "p", "e",
          "r", "i", "t", "y", "." >> >>

Signature_codesign_language ==
    << << "c", "o", "-", "d", "e", "s", "i", "g", "n", "e", "d", " ", "w",
          "i", "t", "h", " ", "N", "Y", "C", "H", "A", " ", "r", "e", "s",
          "i", "d", "e", "n", "t", "s", " ", "a", "n", "d", " ", "t", "e",
          "n", "a", "n", "t", " ", "l", "e", "a", "d", "e", "r", "s" >>,
       << "c", "o", "-", "c", "r", "e", "a", "t", "e", "d", " ", "w", "i",
          "t", "h", " ", "c", "o", "m", "m", "u", "n", "i", "t", "y", " ",
          "p", "a", "r", "t", "n", "e", "r", "s" >>,
       << "O", "u", "r", " ", "a", "p", "p", "r", "o", "a", "c", "h", " ",
          "i", "s", " ", "b", "a", "s", "e", "d", " ", "o", "n", " ", "u",
          "s", "e", "r", "-", "c", "e", "n", "t", "e", "r", "e", "d", " ",
          "d", "e", "s", "i", "g", "n", ",", " ", "w", "h", "e", "r", "e",
          " ", "w", "e", " ", "t", "e", "s", "t", " ", "o", "u", "r", " ",
          "a", "s", "s", "u", "m", "p", "t", "i", "o", "n", "s", " ", "a",
          "b", "o", "u", "t", " ", "c", "o", "m", "m", "u", "n", "i", "t",
          "y", " ", "n", "e", "e", "d", "s", " ", "a", "n", "d", " ", "e",
          "n", "g", "a", "g", "e", " ", "i", "n", " ", "t", "w", "o", "-",
          "w", "a", "y", " ", "d", "i", "a", "l", "o", "g", "u", "e", "s",
          " ", "t", "o", " ", "c", "u", "l", "t", "i", "v", "a", "t", "e",
          " ", "e", "m", "p", "a", "t", "h", "y", " ", "b", "e", "f", "o",
          "r", "e", " ", "w", "e", " ", "d", "e", "s", "i", "g", "n", "." >>,
       << "W", "e", " ", "c", "e", "n", "t", "e", "r", " ", "c", "o", "m",
          "m", "u", "n", "i", "t", "y", " ", "v", "o", "i", "c", "e", "s",
          " ", "i", "n", " ", "e", "v", "e", "r", "y", " ", "a", "s", "p",
          "e", "c", "t", " ", "o", "f", " ", "p", "r", "o", "g", "r", "a",
          "m", " ", "d", "e", "v", "e", "l", "o", "p", "m", "e", "n", "t",
          "." >>,
       << "d", "e", "s", "i", "g", "n", "e", "d", " ", "i", "n", " ", "p",
          "a", "r", "t", "n", "e", "r", "s", "h", "i", "p", " ", "w", "i",
          "t", "h", " ", "t", "h", "o", "s", "e", " ", "w", "h", "o", " ",
          "w", "i", "l", "l", " ", "b", "e", "n", "e", "f", "i", "t", " ",
          "m", "o", "s", "t" >> >>

Signature_journey ==
    << << "O", "u", "r", " ", "J", "o", "u", "r", "n", "e", "y", " ", "p",
          "l", "a", "t", "f", "o", "r", "m", " ", "i", "s", " ", "a", " ",
          "g", "a", "m", "i", "f", "i", "e", "d", " ", "l", "e", "a", "r",
          "n", "i", "n", "g", " ", "e", "x", "p", "e", "r", "i", "e", "n",
          "c", "e", " ", "w", "h", "e", "r", "e", " ", "p", "a", "r", "t",
          "i", "c", "i", "p", "a", "n", "t", "s", " ", "a", "c", "c", "e",
          "s", "s", " ", "m", "u", "l", "t", "i", "m", "e", "d", "i", "a",
          " ", "l", "e", "s", "s", "o", "n", "s", ",", " ", "p", "r", "o",
          "j", "e", "c", "t", "-", "b", "a", "s", "e", "d", " ", "c", "h",
          "a", "l", "l", "e", "n", "g", "e", "s", ",", " ", "a", "n", "d",
          " ", "l", "i", "v", "e", " ", "f", "e", "e", "d", "b", "a", "c",
          "k", "." >>,
       << "L", "e", "a", "r", "n", "e", "r", "s", " ", "e", "a", "r", "n",
          " ", "g", "e", "m", "s", "t", "o", "n", "e", "s", " ", "t", "h",
          "e", "y", " ", "c", "a", "n", " ", "c", "a", "s", "h", " ", "i",
          "n", " ", "f", "o", "r", " ", "p", "r", "i", "z", "e", "s", ",",
          " ", "m", "e", "n", "t", "o", "r", "s", "h", "i", "p", " ", "s",
          "e", "s", "s", "i", "o", "n", "s", ",", " ", "a", "n", "d", " ",
          "w", "o", "r", "k", "s", "h", "o", "p", "s", "." >>,
       << "A", "l", "l", " ", "p", "a", "r", "t", "i", "c", "i", "p", "a",
          "n", "t", "s", " ", "g", "a", "i", "n", " ", "l", "i", "f", "e",
          "t", "i", "m", "e", " ", "a", "c", "c", "e", "s", "s", " ", "t",
          "o", " ", "o", "u", "r", " ", "a", "l", "u", "m", "n", "i", " ",
          "c", "o", "m", "m", "u", "n", "i", "t", "y", ",", " ", "c", "u",
          "r", "r", "i", "c", "u", "l", "u", "m", ",", " ", "a", "n", "d",
          " ", "c", "a", "r", "e", "e", "r", " ", "o", "p", "p", "o", "r",
          "t", "u", "n", "i", "t", "i", "e", "s", "." >>,
       << "O", "u", "r", " ", "p", "l", "a", "t", "f", "o", "r", "m", " ",
          "a", "l", "l", "o", "w", "s", " ", "u", "s", " ", "t", "o", " ",
          "m", "e", "e", "t", " ", "o", "u", "r", " ", "l", "e", "a", "r",
          "n", "e", "r", "s", " ", "w", "h", "e", "r", "e", " ", "t", "h",
          "e", "y", " ", "a", "r", "e", ",", " ", "p", "r", "o", "v", "i",
          "d", "e", " ", "l", "i", "v", "e", " ", "f", "e", "e", "d", "b",
          "a", "c", "k", ",", " ", "a", "n", "d", " ", "p", "r", "o", "v",
          "i", "d", "e", " ", "a", "n", " ", "e", "n", "g", "a", "g", "i",
          "n", "g", " ", "a", "n", "d", " ", "g", "a", "m", "i", "f", "i",
          "e", "d", " ", "l", "e", "a", "r", "n", "i", "n", "g", " ", "e",
          "x", "p", "e", "r", "i", "e", "n", "c", "e", "." >> >>

Signature_startup_nycha ==
    << << "S", "i", "x", "-", "m", "o", "n", "t", "h", " ", "b", "u", "s",
          "i", "n", "e", "s", "s", " ", "a", "c", "c", "e", "l", "e", "r",
          "a", "t", "o", "r", " ", "c", "o", "-", "d", "e", "s", "i", "g",
          "n", "e", "d", " ", "w", "i", "t", "h", " ", "N", "Y", "C", "H",
          "A", " ", "r", "e", "s", "i", "d", "e", "n", "t", "s", " ", "a",
          "n", "d", " ", "t", "e", "n", "a", "n", "t", " ", "l", "e", "a",
          "d", "e", "r", "s" >>,
       << "A", "t", " ", "o", "u", "r", " ", "F", "u", "l", "t", "o", "n",
          " ", "H", "o", "u", "s", "e", "s", " ", "p", "i", "l", "o", "t",
          ",", " ", "w", "e", " ", "h", "a", "d", " ", "6", "0", "+", " ",
          "s", "i", "g", "n", "u", "p", "s", " ", "i", "n", " ", "t", "h",
          "e", " ", "f", "i", "r", "s", "t", " ", "w", "e", "e", "k" >>,
       << "9", "5", "%", " ", "o", "f", " ", "p", "a", "r", "t", "i", "c",
          "i", "p", "a", "n", "t", "s", " ", "w", "e", "r", "e", " ", "w",
          "o", "m", "e", "n", " ", "o", "f", " ", "c", "o", "l", "o", "r" >>,
       << "C", "u", "l", "m", "i", "n", "a", "t", "e", "s", " ", "i", "n",
          " ", "a", " ", "p", "u", "b", "l", "i", "c", " ", "p", "i", "t",
          "c", "h", " ", "c", "o", "m", "p", "e", "t", "i", "t", "i", "o",
          "n", " ", "w", "i", "t", "h", " ", "s", "e", "e", "d", " ", "f",
          "u", "n", "d", "i", "n", "g", " ", "o", "p", "p", "o", "r", "t",
          "u", "n", "i", "t", "i", "e", "s" >>,
       << "C", "r", "e", "a", "t", "e", "s", " ", "c", "o", "m", "m", "u",
          "n", "i", "t", "y", "-", "p", "o", "w", "e", "r", "e", "d", " ",
          "p", "r", "o", "s", "p", "e", "r", "i", "t", "y" >> >>

Signature_cambio_solar ==
    << << "G", "r", "e", "e", "n", " ", "w", "o", "r", "k", "f", "o", "r",
          "c", "e", " ", "t", "r", "a", "i", "n", "i", "n", "g", " ", "l",
          "e", "a", "d", "i", "n", "g", " ", "t", "o", " ", "i", "n", "d",
          "u", "s", "t", "r", "y", "-", "r", "e", "c", "o", "g", "n", "i",
          "z", "e", "d", " ", "c", "e", "r", "t", "i", "f", "i", "c", "a",
          "t", "i", "o", "n", "s", " ", "l", "i", "k", "e", " ", "O", "S",
          "H", "A", " ", "a", "n", "d", " ", "G", "P", "R", "O" >>,
       << "C", "o", "m", "m", "u", "n", "i", "t", "y", "-", "o", "w", "n",
          "e", "d", " ", "s", "o", "l", "a", "r", " ", "b", "u", "s", "i",
          "n", "e", "s", "s", "e", "s", " ", "a", "n", "d", " ", "c", "o",
          "o", "p", "e", "r", "a", "t", "i", "v", "e", "s" >>,
       << "A", "d", "d", "r", "e", "s", "s", "e", "s", " ", "b", "o", "t",
          "h", " ", "e", "n", "v", "i", "r", "o", "n", "m", "e", "n", "t",
          "a", "l", " ", "a", "n", "d", " ", "e", "c", "o", "n", "o", "m",
          "i", "c", " ", "j", "u", "s", "t", "i", "c", "e" >> >>

Signature_impact_language ==
    << << "c", "o", "m", "m", "u", "n", "i", "t", "y", "-", "p", "o", "w",
          "e", "r", "e", "d", " ", "p", "r", "o", "s", "p", "e", "r", "i",
          "t", "y" >>,
       << "u", "n", "t", "a", "p", "p", "e", "d", " ", "p", "o", "t", "e",
          "n", "t", "i", "a", "l" >>,
       << "p", "u", "r", "p", "o", "s", "e", "-", "d", "r", "i", "v", "e",
          "n", " ", "l", "e", "a", "d", "e", "r", "s" >>,
       << "s", "o", "c", "i", "a", "l", " ", "e", "n", "t", "r", "e", "p",
          "r", "e", "n", "e", "u", "r", "s", " ", "w", "h", "o", " ", "s",
          "o", "l", "v", "e", " ", "l", "o", "c", "a", "l", " ", "c", "h",
          "a", "l", "l", "e", "n", "g", "e", "s" >>,
       << "d", "u", "r", "a", "b", "l", "e", " ", "s", "k", "i", "l", "l",
          "s", " ", "f", "o", "r", " ", "2", "1", "s", "t", " ", "c", "e",
          "n", "t", "u", "r", "y", " ", "c", "a", "r", "e", "e", "r", "s" >>,
       << "p", "a", "t", "h", "w", "a", "y", "s", " ", "t", "o", " ", "e",
          "c", "o", "n", "o", "m", "i", "c", " ", "e", "m", "p", "o", "w",
          "e", "r", "m", "e", "n", "t" >>,
       << "g", "e", "n", "e", "r", "a", "t", "i", "o", "n", "a", "l", " ",
          "w", "e", "a", "l", "t", "h", " ", "c", "r", "e", "a", "t", "i",
          "o", "n" >> >>

\* The groups of SIGNATURE_PHRASES in the order the bonus loop visits them;
\* the three program groups count separately.
SIGNATURE_PHRASES ==
    << Signature_mission_statements, Signature_community_empowerment, Signature_codesign_language,
       Signature_journey, Signature_startup_nycha, Signature_cambio_solar, Signature_impact_language >>

vague_words ==
    << << "m", "a", "n", "y" >>,
       << "s", "i", "g", "n", "i", "f", "i", "c", "a", "n", "t" >>,
       << "n", "u", "m", "e", "r", "o", "u", "s" >>,
       << "v", "a", "r", "i", "o", "u", "s" >>,
       << "s", "u", "b", "s", "t", "a", "n", "t", "i", "a", "l" >>,
       << "c", "o", "n", "s", "i", "d", "e", "r", "a", "b", "l", "e" >> >>

codesign_terms ==
    << << "c", "o", "-", "d", "e", "s", "i", "g", "n" >>,
       << "c", "o", "-", "c", "r", "e", "a", "t", "e", "d" >>,
       << "d", "e", "s", "i", "g", "n", "e", "d", " ", "w", "i", "t", "h" >>,
       << "t", "e", "n", "a", "n", "t", " ", "l", "e", "a", "d", "e", "r",
          "s" >> >>

lit_underserved ==
    << "u", "n", "d", "e", "r", "s", "e", "r", "v", "e", "d" >>

lit_underestimated ==
    << "u", "n", "d", "e", "r", "e", "s", "t", "i", "m", "a", "t", "e", "d" >>

lit_participants ==
    << " ", "p", "a", "r", "t", "i", "c", "i", "p", "a", "n", "t", "s" >>

lit_entrepreneurs ==
    << " ", "e", "n", "t", "r", "e", "p", "r", "e", "n", "e", "u", "r", "s" >>

lit_sixty_plus ==
    << "6", "0", "+" >>

RECURSIVE SumOccurrences(_, _, _)
SumOccurrences(phrases, k, s) ==
    IF k > Len(phrases) THEN 0
    ELSE Occurrences(Lower(phrases[k]), s) + SumOccurrences(phrases, k + 1, s)

\* len(check_ai_buzzwords(text)) of a string.
BuzzwordViolations(s) == SumOccurrences(AI_BUZZWORDS_FORBIDDEN, 1, Lower(s))

\* A match of \bword\b at position i, letter case ignored.
WordAt(word, s, i) ==
    /\ OccursAt(word, Lower(s), i)
    /\ (i = 1 \/ ~IsWordChar(s[i - 1]))
    /\ (i + Len(word) > Len(s) \/ ~IsWordChar(s[i + Len(word)]))

RECURSIVE SumWordMatches(_, _, _)
SumWordMatches(words, k, s) ==
    IF k > Len(words) THEN 0
    ELSE Cardinality({ i \in 1..Len(s) : WordAt(words[k], s, i) })
         + SumWordMatches(words, k + 1, s)

\* The vague-word entries of check_specificity(text).
VagueMatches(s) == SumWordMatches(vague_words, 1, s)

\* re.search(r'\d+%|\d+ participants|\d+ entrepreneurs|\$\d+|60\+', text)
has_numbers(s) ==
    \E i \in 1..Len(s) :
        \/ /\ s[i] \in Digits
           /\ \/ OccursAt(<< "%" >>, s, i + 1)
              \/ OccursAt(lit_participants, s, i + 1)
              \/ OccursAt(lit_entrepreneurs, s, i + 1)
        \/ s[i] = "$" /\ i < Len(s) /\ s[i + 1] \in Digits
        \/ OccursAt(lit_sixty_plus, s, i)

\* The mutant of SignatureGroups: every phrase of a group counts.
SignatureGroups_PerPhrase(s) ==
    Cardinality({ gp \in (1..Len(SIGNATURE_PHRASES)) \X (1..60) :
                    /\ gp[2] <= Len(SIGNATURE_PHRASES[gp[1]])
                    /\ Contains(Lower(SIGNATURE_PHRASES[gp[1]][gp[2]]), Lower(s)) })

\* The number of signature groups with a phrase in the text.
SignatureGroups(s) ==
    Cardinality({ g \in 1..Len(SIGNATURE_PHRASES) :
                    \E p \in 1..Len(SIGNATURE_PHRASES[g]) :
                        Contains(Lower(SIGNATURE_PHRASES[g][p]), Lower(s)) })

LongTextLength == 200

Features(s) ==
    [ buzz |-> BuzzwordViolations(s),
      underserved |-> Contains(lit_underserved, Lower(s)),
      underestimated |-> Contains(lit_underestimated, Lower(s)),
      codesign |-> \E t \in 1..Len(codesign_terms) : Contains(codesign_terms[t], Lower(s)),
      vague |-> VagueMatches(s),
      numbers |-> has_numbers(s),
      long |-> Len(s) > LongTextLength,
      sig |-> SignatureGroups(s) ]

\* The text of scenario B of the specification.
ScenarioBText ==
    << "W", "e", " ", "l", "e", "v", "e", "r", "a", "g", "e", " ", "o",
       "u", "r", " ", "i", "n", "n", "o", "v", "a", "t", "i", "v", "e",
       " ", "p", "l", "a", "t", "f", "o", "r", "m", " ", "t", "o", " ",
       "e", "n", "s", "u", "r", "e", " ", "s", "i", "g", "n", "i", "f",
       "i", "c", "a", "n", "t", " ", "p", "o", "s", "i", "t", "i", "v",
       "e", " ", "c", "h", "a", "n", "g", "e", " ", "f", "o", "r", " ",
       "u", "n", "d", "e", "r", "s", "e", "r", "v", "e", "d", " ", "c",
       "o", "m", "m", "u", "n", "i", "t", "i", "e", "s", "." >>

\* The text of scenario C of the specification.
ScenarioCText ==
    << "F", "o", "r", " ", "t", "h", "o", "u", "s", "a", "n", "d", "s",
       " ", "o", "f", " ", "N", "e", "w", " ", "Y", "o", "r", "k", "e",
       "r", "s", " ", "l", "i", "v", "i", "n", "g", " ", "i", "n", " ",
       "p", "u", "b", "l", "i", "c", " ", "h", "o", "u", "s", "i", "n",
       "g", ",", " ", "e", "n", "t", "r", "e", "p", "r", "e", "n", "e",
       "u", "r", "s", "h", "i", "p", " ", "i", "s", " ", "o", "n", "e",
       " ", "o", "f", " ", "t", "h", "e", " ", "f", "e", "w", " ", "v",
       "i", "a", "b", "l", "e", " ", "p", "a", "t", "h", "s", " ", "t",
       "o", " ", "i", "n", "c", "o", "m", "e", " ", "a", "n", "d", " ",
       "o", "w", "n", "e", "r", "s", "h", "i", "p", ".", " ", "L", "e",
       "s", "s", " ", "t", "h", "a", "n", " ", "1", "%", " ", "o", "f",
       " ", "N", "Y", "C", "H", "A", " ", "r", "e", "s", "i", "d", "e",
       "n", "t", "s", " ", "r", "e", "p", "o", "r", "t", " ", "b", "u",
       "s", "i", "n", "e", "s", "s", " ", "r", "e", "v", "e", "n", "u",
       "e", "." >>

\* A text with a number, no forbidden phrase of the list and no vague word.
PlainNumberText ==
    << "W", "e", " ", "t", "r", "a", "i", "n", " ", "4", "0", " ", "p",
       "a", "r", "t", "i", "c", "i", "p", "a", "n", "t", "s", " ", "f",
       "r", "o", "m", " ", "u", "n", "d", "e", "r", "s", "e", "r", "v",
       "e", "d", " ", "b", "l", "o", "c", "k", "s", "." >>

\* A text with three phrases of one signature group (impact_language) and
\* two forbidden phrases.
RepeatedGroupText ==
    << "W", "e", " ", "l", "e", "v", "e", "r", "a", "g", "e", " ", "i",
       "n", "n", "o", "v", "a", "t", "i", "v", "e", " ", "t", "o", "o",
       "l", "s", ":", " ", "u", "n", "t", "a", "p", "p", "e", "d", " ",
       "p", "o", "t", "e", "n", "t", "i", "a", "l", " ", "b", "e", "c",
       "o", "m", "e", "s", " ", "c", "o", "m", "m", "u", "n", "i", "t",
       "y", "-", "p", "o", "w", "e", "r", "e", "d", " ", "p", "r", "o",
       "s", "p", "e", "r", "i", "t", "y", " ", "f", "o", "r", " ", "p",
       "u", "r", "p", "o", "s", "e", "-", "d", "r", "i", "v", "e", "n",
       " ", "l", "e", "a", "d", "e", "r", "s", "." >>

-----------------------------------------------------------------------------
(* calculate_voice_score called on its own: once per behaviour, on a text  *)
(* given by its features or on one of the texts given by its characters.   *)

MaxBuzz == 3
MaxVague == 6
MaxSig == 2

\* Forbidden-phrase counts: a few, and enough of them to spend the score.
BuzzCounts == 0..MaxBuzz \cup { 20 }

VoiceTexts ==
    [ buzz : BuzzCounts, underserved : BOOLEAN, underestimated : BOOLEAN,
      codesign : BOOLEAN, vague : 0..MaxVague, numbers : BOOLEAN,
      long : BOOLEAN, sig : 0..MaxSig ]

VoiceStrings ==
    { ScenarioBText, ScenarioCText, PlainNumberText, RepeatedGroupText }

VoiceSections ==
    { EmptyName, NeedStatement, MethodologySection, MethodologyUpper,
      ProjectDescriptionMixed }

Scored(raw, text, section_name) ==
    [ called |-> TRUE, raw |-> raw, text |-> text, section_name |-> section_name,
      result |-> calculate_voice_score(text, section_name) ]

CalculateVoiceScore(text, section_name) ==
    /\ ~vs.called
    /\ vs' = Scored(None, text, section_name)
    /\ UNCHANGED << fm, rf, ck, collections, ret, auto_validate, auto_fix, gs, calls, fa, app, rb, sa, ex >>

CalculateVoiceScoreOfString(s, section_name) ==
    /\ ~vs.called
    /\ vs' = Scored(Some(s), Features(s), section_name)
    /\ UNCHANGED << fm, rf, ck, collections, ret, auto_validate, auto_fix, gs, calls, fa, app, rb, sa, ex >>

InitVoice ==
    /\ fm = NoFormatting /\ rf = NoRefinement /\ ck = NoChunking
    /\ ret = NoRetrieval /\ gs = IdleSection /\ calls = << >> /\ fa = NoApplication
    /\ auto_validate = TRUE /\ auto_fix = TRUE /\ app = IdleApp(EmptyDict)
    /\ rb = NoRebuild /\ sa = NoStoreCalls /\ ex = NoExtraction
    /\ collections = NoItems
    /\ vs = NoScoring

NextVoice ==
    \/ \E text \in VoiceTexts, section_name \in VoiceSections :
           CalculateVoiceScore(text, section_name)
    \/ \E s \in VoiceStrings, section_name \in VoiceSections :
           CalculateVoiceScoreOfString(s, section_name)

SpecVoice == InitVoice /\ [][NextVoice]_vars

-----------------------------------------------------------------------------
(* The Extraction Engine.  A regular expression of the code is the         *)
(* sequence of its parts: a literal, a group of alternative literals       *)
(* (capturing, optional or not), an optional literal, a greedy repetition  *)
(* of a character class, and the opening and closing of a capturing group  *)
(* around other parts.  Match follows the order in which re tries the      *)
(* alternatives: a group's alternatives from left to right, an optional    *)
(* part present before absent, a repetition from its longest run down.     *)
(* All the patterns with letters carry (?i).                               *)

Lit(chars) == [ kind |-> "lit", chars |-> chars ]

Group(alts) == [ kind |-> "alt", alts |-> alts, optional |-> FALSE, capture |-> TRUE ]

OptionalGroup(alts) == [ kind |-> "alt", alts |-> alts, optional |-> TRUE, capture |-> TRUE ]

Optional(chars) ==
    [ kind |-> "alt", alts |-> << chars >>, optional |-> TRUE, capture |-> FALSE ]

Rep(class, min, max) == [ kind |-> "rep", class |-> class, min |-> min, max |-> Some(max) ]

Many(class, min) == [ kind |-> "rep", class |-> class, min |-> min, max |-> None ]

OpenGroup == [ kind |-> "open" ]

CloseGroup == [ kind |-> "close" ]

SentenceEnd == { ".", "!", "?" }

InClass(c, class) ==
    CASE class = "sentence" -> c \notin SentenceEnd
      [] class = "end" -> c \in SentenceEnd
      [] class = "digit" -> c \in Digits
      [] class = "digit_comma" -> c \in Digits \cup { "," }
      [] class = "not_quote" -> c # "\""

\* The length of the longest run of the class at position i, up to limit.
Run(s, i, class, limit) ==
    LET most == Min(limit, Len(s) - i + 1)
        stops == { n \in 0..(most - 1) : ~InClass(s[i + n], class) }
    IN  IF stops = {} THEN Max(most, 0)
        ELSE CHOOSE n \in stops : \A m \in stops : n <= m

\* The literal at position i, letter case ignored.
LitAt(chars, s, i) ==
    /\ i + Len(chars) - 1 <= Len(s)
    /\ \A j \in 1..Len(chars) : LowerChar(s[i + j - 1]) = LowerChar(chars[j])

\* Match(pattern, k, s, at): the first way, in the order re tries them, in
\* which the parts k.. of the pattern match s from position at.i; << >>
\* when there is none.
RECURSIVE Match(_, _, _, _)
RECURSIVE TryAlts(_, _, _, _, _)
RECURSIVE TryRep(_, _, _, _, _)
Match(pattern, k, s, at) ==
    IF k > Len(pattern) THEN << at >>
    ELSE LET node == pattern[k]
         IN  CASE node.kind = "lit" ->
                      IF LitAt(node.chars, s, at.i)
                      THEN Match(pattern, k + 1, s,
                                 [ at EXCEPT !.i = @ + Len(node.chars) ])
                      ELSE << >>
               [] node.kind = "alt" -> TryAlts(pattern, k, s, at, 1)
               [] node.kind = "rep" ->
                      LET limit == IF node.max = None THEN Len(s) ELSE node.max[1]
                          run == Run(s, at.i, node.class, limit)
                      IN  TryRep(pattern, k, s, at, run)
               [] node.kind = "open" ->
                      Match(pattern, k + 1, s, [ at EXCEPT !.open = at.i ])
               [] node.kind = "close" ->
                      Match(pattern, k + 1, s,
                            [ at EXCEPT !.groups = Append(@, SubSeq(s, at.open, at.i - 1)) ])

TryAlts(pattern, k, s, at, a) ==
    LET node == pattern[k]
    IN  IF a > Len(node.alts)
        THEN IF node.optional
             THEN Match(pattern, k + 1, s,
                        IF node.capture
                        THEN [ at EXCEPT !.groups = Append(@, << >>) ]
                        ELSE at)
             ELSE << >>
        ELSE LET alt == node.alts[a]
                 found == SubSeq(s, at.i, at.i + Len(alt) - 1)
                 rest == IF LitAt(alt, s, at.i)
                         THEN Match(pattern, k + 1, s,
                                    [ at EXCEPT !.i = @ + Len(alt),
                                                !.groups = IF node.capture
                                                           THEN Append(@, found)
                                                           ELSE @ ])
                         ELSE << >>
             IN  IF rest # << >> THEN rest
                 ELSE TryAlts(pattern, k, s, at, a + 1)

\* A repetition takes the longest of its runs after which the rest matches.
TryRep(pattern, k, s, at, run) ==
    LET After(n) == Match(pattern, k + 1, s, [ at EXCEPT !.i = @ + n ])
        fitting == { n \in pattern[k].min..run : After(n) # << >> }
    IN  IF fitting = {} THEN << >>
        ELSE After(CHOOSE n \in fitting : \A m \in fitting : n >= m)

\* What re.findall returns for one match: the whole match when the pattern
\* has no group, the group when it has one, the tuple of the groups when
\* it has several.
FindallValue(s, start, found) ==
    IF Len(found.groups) = 0
    THEN [ tuple |-> FALSE, text |-> SubSeq(s, start, found.i - 1), groups |-> << >> ]
    ELSE IF Len(found.groups) = 1
    THEN [ tuple |-> FALSE, text |-> found.groups[1], groups |-> found.groups ]
    ELSE [ tuple |-> TRUE, text |-> << >>, groups |-> found.groups ]

MatchAt(pattern, s, pos) ==
    Match(pattern, 1, s, [ i |-> pos, open |-> pos, groups |-> << >> ])

\* The matches from position pos on: the leftmost one, then those after it.
RECURSIVE findall_from(_, _, _)
findall_from(pattern, s, pos) ==
    LET starts == { p \in pos..Len(s) : MatchAt(pattern, s, p) # << >> }
    IN  IF starts = {} THEN << >>
        ELSE LET start == CHOOSE p \in starts : \A q \in starts : p <= q
                 found == MatchAt(pattern, s, start)[1]
             IN  << FindallValue(s, start, found) >>
                 \o findall_from(pattern, s,
                                 IF found.i > start THEN found.i ELSE start + 1)

\* re.findall(pattern, text): the matches from left to right, not
\* overlapping.
findall(pattern, s) == findall_from(pattern, s, 1)

Whitespace == { " ", "\n", "\t" }

\* str.strip()
Strip(s) ==
    LET inked == { i \in 1..Len(s) : s[i] \notin Whitespace }
    IN  IF inked = {} THEN << >>
        ELSE SubSeq(s, CHOOSE i \in inked : \A j \in inked : i <= j,
                       CHOOSE i \in inked : \A j \in inked : i >= j)

NotEmpty(group) == group # << >>

\* separator.join(parts)
RECURSIVE JoinAll(_, _)
JoinAll(parts, separator) ==
    IF parts = << >> THEN << >>
    ELSE IF Len(parts) = 1 THEN parts[1]
    ELSE parts[1] \o separator \o JoinAll(Tail(parts), separator)

\* (?i)we (firmly )?believe that [^.!?]{20,150}[.!?]
mission_patterns_1 ==
    << Lit(<< "w", "e", " " >>),
       OptionalGroup(<< << "f", "i", "r", "m", "l", "y", " " >> >>),
       Lit(<< "b", "e", "l", "i", "e", "v", "e", " ", "t", "h", "a", "t", " " >>),
       Rep("sentence", 20, 150),
       Rep("end", 1, 1) >>

\* (?i)when people (gain )?access [^.!?]{20,150}[.!?]
mission_patterns_2 ==
    << Lit(<< "w", "h", "e", "n", " ", "p", "e", "o", "p", "l", "e", " " >>),
       OptionalGroup(<< << "g", "a", "i", "n", " " >> >>),
       Lit(<< "a", "c", "c", "e", "s", "s", " " >>),
       Rep("sentence", 20, 150),
       Rep("end", 1, 1) >>

\* (?i)entrepreneurship is (more than|not just) [^.!?]{20,150}[.!?]
mission_patterns_3 ==
    << Lit(<< "e", "n", "t", "r", "e", "p", "r", "e", "n", "e", "u", "r", "s", "h",
   "i", "p", " ", "i", "s", " " >>),
       Group(<< << "m", "o", "r", "e", " ", "t", "h", "a", "n" >>, << "n", "o", "t", " ", "j", "u", "s", "t" >> >>),
       Lit(<< " " >>),
       Rep("sentence", 20, 150),
       Rep("end", 1, 1) >>

\* (?i)we champion [^.!?]{20,150}[.!?]
mission_patterns_4 ==
    << Lit(<< "w", "e", " ", "c", "h", "a", "m", "p", "i", "o", "n", " " >>),
       Rep("sentence", 20, 150),
       Rep("end", 1, 1) >>

\* (?i)those (who are )?closest to the issues [^.!?]{20,150}[.!?]
mission_patterns_5 ==
    << Lit(<< "t", "h", "o", "s", "e", " " >>),
       OptionalGroup(<< << "w", "h", "o", " ", "a", "r", "e", " " >> >>),
       Lit(<< "c", "l", "o", "s", "e", "s", "t", " ", "t", "o", " ", "t", "h", "e",
   " ", "i", "s", "s", "u", "e", "s", " " >>),
       Rep("sentence", 20, 150),
       Rep("end", 1, 1) >>

mission_patterns == << mission_patterns_1, mission_patterns_2, mission_patterns_3, mission_patterns_4, mission_patterns_5 >>

\* (?i)for (thousands|hundreds) of [^.!?]{20,200}[.!?]
empowerment_patterns_1 ==
    << Lit(<< "f", "o", "r", " " >>),
       Group(<< << "t", "h", "o", "u", "s", "a", "n", "d", "s" >>, << "h", "u", "n", "d", "r", "e", "d", "s" >> >>),
       Lit(<< " ", "o", "f", " " >>),
       Rep("sentence", 20, 200),
       Rep("end", 1, 1) >>

\* (?i)(more than|over) \d+%[^.!?]{20,150}[.!?]
empowerment_patterns_2 ==
    << Group(<< << "m", "o", "r", "e", " ", "t", "h", "a", "n" >>, << "o", "v", "e", "r" >> >>),
       Lit(<< " " >>),
       Many("digit", 1),
       Lit(<< "%" >>),
       Rep("sentence", 20, 150),
       Rep("end", 1, 1) >>

\* (?i)(untapped potential|community-powered prosperity)[^.!?]{0,100}[.!?]
empowerment_patterns_3 ==
    << Group(<< << "u", "n", "t", "a", "p", "p", "e", "d", " ", "p", "o", "t", "e", "n",
   "t", "i", "a", "l" >>, << "c", "o", "m", "m", "u", "n", "i", "t", "y", "-", "p", "o", "w", "e",
   "r", "e", "d", " ", "p", "r", "o", "s", "p", "e", "r", "i", "t", "y" >> >>),
       Rep("sentence", 0, 100),
       Rep("end", 1, 1) >>

\* (?i)transforms? [^.!?]{10,100} into [^.!?]{10,100}[.!?]
empowerment_patterns_4 ==
    << Lit(<< "t", "r", "a", "n", "s", "f", "o", "r", "m" >>),
       Optional(<< "s" >>),
       Lit(<< " " >>),
       Rep("sentence", 10, 100),
       Lit(<< " ", "i", "n", "t", "o", " " >>),
       Rep("sentence", 10, 100),
       Rep("end", 1, 1) >>

empowerment_patterns == << empowerment_patterns_1, empowerment_patterns_2, empowerment_patterns_3, empowerment_patterns_4 >>

\* (?i)\d+\+ (signups|participants|residents|entrepreneurs)[^.!?]{0,150}[.!?]
number_patterns_1 ==
    << Many("digit", 1),
       Lit(<< "+", " " >>),
       Group(<< << "s", "i", "g", "n", "u", "p", "s" >>, << "p", "a", "r", "t", "i", "c", "i", "p", "a", "n", "t", "s" >>, << "r", "e", "s", "i", "d", "e", "n", "t", "s" >>, << "e", "n", "t", "r", "e", "p", "r", "e", "n", "e", "u", "r", "s" >> >>),
       Rep("sentence", 0, 150),
       Rep("end", 1, 1) >>

\* (?i)\d+%[^.!?]{5,150}[.!?]
number_patterns_2 ==
    << Many("digit", 1),
       Lit(<< "%" >>),
       Rep("sentence", 5, 150),
       Rep("end", 1, 1) >>

\* (?i)\$[\d,]+ [^.!?]{5,100}[.!?]
number_patterns_3 ==
    << Lit(<< "$" >>),
       Many("digit_comma", 1),
       Lit(<< " " >>),
       Rep("sentence", 5, 100),
       Rep("end", 1, 1) >>

\* (?i)(over|more than|less than|under) \d+ [^.!?]{10,150}[.!?]
number_patterns_4 ==
    << Group(<< << "o", "v", "e", "r" >>, << "m", "o", "r", "e", " ", "t", "h", "a", "n" >>, << "l", "e", "s", "s", " ", "t", "h", "a", "n" >>, << "u", "n", "d", "e", "r" >> >>),
       Lit(<< " " >>),
       Many("digit", 1),
       Lit(<< " " >>),
       Rep("sentence", 10, 150),
       Rep("end", 1, 1) >>

\* (?i)\d+ (weeks?|months?|years?|hours?)[^.!?]{10,150}[.!?]
number_patterns_5 ==
    << Many("digit", 1),
       Lit(<< " " >>),
       Group(<< << "w", "e", "e", "k", "s" >>, << "w", "e", "e", "k" >>, << "m", "o", "n", "t", "h", "s" >>, << "m", "o", "n", "t", "h" >>, << "y", "e", "a", "r", "s" >>, << "y", "e", "a", "r" >>, << "h", "o", "u", "r", "s" >>, << "h", "o", "u", "r" >> >>),
       Rep("sentence", 10, 150),
       Rep("end", 1, 1) >>

number_patterns == << number_patterns_1, number_patterns_2, number_patterns_3, number_patterns_4, number_patterns_5 >>

\* "([^"]{20,300})"
quote_patterns_1 ==
    << Lit(<< "\"" >>),
       OpenGroup,
       Rep("not_quote", 20, 300),
       CloseGroup,
       Lit(<< "\"" >>) >>

\* "([^"]{20,300})"  (the second pattern of the list is the same)
quote_patterns_2 ==
    << Lit(<< "\"" >>),
       OpenGroup,
       Rep("not_quote", 20, 300),
       CloseGroup,
       Lit(<< "\"" >>) >>

quote_patterns == << quote_patterns_1, quote_patterns_2 >>

\* (?i)co-design(ed)? with [^.!?]{10,150}[.!?]
codesign_patterns_1 ==
    << Lit(<< "c", "o", "-", "d", "e", "s", "i", "g", "n" >>),
       OptionalGroup(<< << "e", "d" >> >>),
       Lit(<< " ", "w", "i", "t", "h", " " >>),
       Rep("sentence", 10, 150),
       Rep("end", 1, 1) >>

\* (?i)co-creat(ed)? with [^.!?]{10,150}[.!?]
codesign_patterns_2 ==
    << Lit(<< "c", "o", "-", "c", "r", "e", "a", "t" >>),
       OptionalGroup(<< << "e", "d" >> >>),
       Lit(<< " ", "w", "i", "t", "h", " " >>),
       Rep("sentence", 10, 150),
       Rep("end", 1, 1) >>

\* (?i)(designed|developed) (in partnership|in collaboration) with [^.!?]{10,150}[.!?]
codesign_patterns_3 ==
    << Group(<< << "d", "e", "s", "i", "g", "n", "e", "d" >>, << "d", "e", "v", "e", "l", "o", "p", "e", "d" >> >>),
       Lit(<< " " >>),
       Group(<< << "i", "n", " ", "p", "a", "r", "t", "n", "e", "r", "s", "h", "i", "p" >>, << "i", "n", " ", "c", "o", "l", "l", "a", "b", "o", "r", "a", "t", "i",
   "o", "n" >> >>),
       Lit(<< " ", "w", "i", "t", "h", " " >>),
       Rep("sentence", 10, 150),
       Rep("end", 1, 1) >>

\* (?i)(center|centering) [^.!?]{5,50}(as experts|as leaders)[^.!?]{0,100}[.!?]
codesign_patterns_4 ==
    << Group(<< << "c", "e", "n", "t", "e", "r" >>, << "c", "e", "n", "t", "e", "r", "i", "n", "g" >> >>),
       Lit(<< " " >>),
       Rep("sentence", 5, 50),
       Group(<< << "a", "s", " ", "e", "x", "p", "e", "r", "t", "s" >>, << "a", "s", " ", "l", "e", "a", "d", "e", "r", "s" >> >>),
       Rep("sentence", 0, 100),
       Rep("end", 1, 1) >>

\* (?i)tenant leaders? [^.!?]{10,150}[.!?]
codesign_patterns_5 ==
    << Lit(<< "t", "e", "n", "a", "n", "t", " ", "l", "e", "a", "d", "e", "r" >>),
       Optional(<< "s" >>),
       Lit(<< " " >>),
       Rep("sentence", 10, 150),
       Rep("end", 1, 1) >>

\* (?i)user-centered design[^.!?]{10,150}[.!?]
codesign_patterns_6 ==
    << Lit(<< "u", "s", "e", "r", "-", "c", "e", "n", "t", "e", "r", "e", "d", " ",
   "d", "e", "s", "i", "g", "n" >>),
       Rep("sentence", 10, 150),
       Rep("end", 1, 1) >>

codesign_patterns == << codesign_patterns_1, codesign_patterns_2, codesign_patterns_3, codesign_patterns_4, codesign_patterns_5, codesign_patterns_6 >>

program_names ==
    << << "J", "o", "u", "r", "n", "e", "y", " ", "P", "l", "a", "t", "f", "o",
   "r", "m" >>,
       << "J", "o", "u", "r", "n", "e", "y" >>,
       << "S", "t", "a", "r", "t", "U", "p", " ", "N", "Y", "C", "H", "A" >>,
       << "S", "t", "a", "r", "t", "u", "p", " ", "N", "Y", "C", "H", "A" >>,
       << "C", "a", "m", "b", "i", "o", " ", "S", "o", "l", "a", "r" >>,
       << "C", "a", "m", "b", "i", "o", " ", "C", "o", "d", "i", "n", "g" >>,
       << "C", "a", "m", "b", "i", "o", " ", "C", "o", "d", "i", "n", "g", " ",
   "&", " ", "A", "I" >>,
       << "S", "o", "c", "i", "a", "l", " ", "E", "n", "t", "r", "e", "p", "r",
   "e", "n", "e", "u", "r", "s", "h", "i", "p", " ", "I", "n", "c", "u",
   "b", "a", "t", "o", "r" >> >>

\* What each extraction function makes of a value of findall:
\* match[0] of a tuple (mission), ''.join(match) (empowerment and data),
\* ' '.join(str(m) for m in match if m) (co-design); a string is taken as
\* it is.
FullMatch(value, mode) ==
    IF ~value.tuple THEN value.text
    ELSE CASE mode = "first" -> value.groups[1]
           [] mode = "concat" -> JoinAll(value.groups, << >>)
           [] mode = "spaced" -> JoinAll(SelectSeq(value.groups, NotEmpty), << " " >>)

\* The fragments of one pattern: the matches longer than the threshold,
\* stripped.
FragmentsOfPattern(pattern, s, mode, longer_than, category) ==
    LET values == findall(pattern, s)
        matches == [ n \in 1..Len(values) |-> FullMatch(values[n], mode) ]
        Kept(full_match) == Len(full_match) > longer_than
        kept == SelectSeq(matches, Kept)
    IN  [ n \in 1..Len(kept) |-> [ text |-> Strip(kept[n]), category |-> category ] ]

RECURSIVE FragmentsOfPatterns(_, _, _, _, _, _)
FragmentsOfPatterns(patterns, k, s, mode, longer_than, category) ==
    IF k > Len(patterns) THEN << >>
    ELSE FragmentsOfPattern(patterns[k], s, mode, longer_than, category)
         \o FragmentsOfPatterns(patterns, k + 1, s, mode, longer_than, category)

\* The length a match must exceed to be kept.
EmpowermentMinLength == 20
MetricMinLength == 10
CodesignMinLength == 15
ProgramMinLength == 30

\* extract_voice_phrases(text, metadata): every mission match is kept.
extract_voice_phrases(text) ==
    FragmentsOfPatterns(mission_patterns, 1, text, "first", 0 - 1, "mission")
    \o FragmentsOfPatterns(empowerment_patterns, 1, text, "concat",
                           EmpowermentMinLength, "empowerment")

\* extract_data_metrics(text, metadata)
extract_data_metrics(text) ==
    FragmentsOfPatterns(number_patterns, 1, text, "concat", MetricMinLength, "statistics")

lit_http == << "h", "t", "t", "p" >>

lit_www == << "w", "w", "w" >>

\* extract_participant_voices(text, metadata): the quotes without a link
\* or an address.
extract_participant_voices(text) ==
    LET Testimonial(fragment) ==
            /\ ~Contains(lit_http, Lower(fragment.text))
            /\ ~Contains(lit_www, Lower(fragment.text))
            /\ ~Contains(<< "@" >>, fragment.text)
    IN  SelectSeq(FragmentsOfPatterns(quote_patterns, 1, text, "first", 0 - 1, "testimonial"),
                  Testimonial)

\* extract_codesign_language(text, metadata)
extract_codesign_language(text) ==
    FragmentsOfPatterns(codesign_patterns, 1, text, "spaced", CodesignMinLength, "codesign")

\* rf"(?i)([^.!?]*{program_name}[^.!?]{{0,200}}[.!?])"
ProgramPattern(program_name) ==
    << OpenGroup, Many("sentence", 0), Lit(program_name),
       Rep("sentence", 0, 200), Rep("end", 1, 1), CloseGroup >>

RECURSIVE ProgramFragments(_, _)
ProgramFragments(k, s) ==
    IF k > Len(program_names) THEN << >>
    ELSE FragmentsOfPattern(ProgramPattern(program_names[k]), s, "first",
                            ProgramMinLength, "program_description")
         \o ProgramFragments(k + 1, s)

\* extract_program_descriptions(text, metadata)
extract_program_descriptions(text) == ProgramFragments(1, text)

CHUNK_SIZE == 1500

CHUNK_OVERLAP == 200

\* text[start:end]: a negative index counts from the end of the text, and
\* the indices are clipped to the text.
Slice(text, start, end) ==
    LET clip(i) == IF i < 0 THEN Max(0, Len(text) + i) ELSE Min(i, Len(text))
    IN  SubSeq(text, clip(start) + 1, clip(end))

\* chunk.rfind(c)
RFind(chunk, c) ==
    IF \E i \in 1..Len(chunk) : chunk[i] = c
    THEN (CHOOSE i \in 1..Len(chunk) :
              chunk[i] = c /\ \A j \in (i + 1)..Len(chunk) : chunk[j] # c) - 1
    ELSE 0 - 1

\* The mutant of Iteration: the chunk is cut at its last sentence boundary
\* wherever that is.
Iteration_CutsAtAnyBoundary(text, chunk_size, overlap, start) ==
    LET whole == Slice(text, start, start + chunk_size)
        break_point == Max(RFind(whole, "."), RFind(whole, "\n"))
        breaks == start + chunk_size < Len(text) /\ break_point >= 0
        chunk == IF breaks THEN SubSeq(whole, 1, break_point + 1) ELSE whole
        end == IF breaks THEN start + break_point + 1 ELSE start + chunk_size
    IN  [ chunk |-> Strip(chunk), taken |-> chunk, end |-> end,
          breaks |-> breaks, start |-> end - overlap ]

\* One iteration of the while loop of chunk_text from `start`: the chunk it
\* appends, its `end`, whether it cut at a sentence boundary, and the
\* `start` of the next iteration.  break_point > chunk_size * 0.7 is
\* compared in tenths, which is the comparison of the floating-point
\* product for the chunk sizes of the model.
Iteration(text, chunk_size, overlap, start) ==
    LET whole == Slice(text, start, start + chunk_size)
        break_point == Max(RFind(whole, "."), RFind(whole, "\n"))
        breaks == /\ start + chunk_size < Len(text)
                  /\ 10 * break_point > 7 * chunk_size
        chunk == IF breaks THEN SubSeq(whole, 1, break_point + 1) ELSE whole
        end == IF breaks THEN start + break_point + 1 ELSE start + chunk_size
    IN  [ chunk |-> Strip(chunk), taken |-> chunk, end |-> end,
          breaks |-> breaks, start |-> end - overlap ]

\* The while loop of chunk_text from `start` on.
RECURSIVE ChunkLoop(_, _, _, _)
ChunkLoop(text, chunk_size, overlap, start) ==
    IF start >= Len(text) THEN << >>
    ELSE LET step == Iteration(text, chunk_size, overlap, start)
         IN  << step.chunk >> \o ChunkLoop(text, chunk_size, overlap, step.start)

\* chunk_text(text, chunk_size, overlap)
chunk_text(text, chunk_size, overlap) ==
    IF Len(text) <= chunk_size THEN << text >>
    ELSE ChunkLoop(text, chunk_size, overlap, 0)

FultonSentence ==
    << "A", "t", " ", "o", "u", "r", " ", "F", "u", "l", "t", "o", "n",
       " ", "H", "o", "u", "s", "e", "s", " ", "p", "i", "l", "o", "t",
       ",", " ", "w", "e", " ", "h", "a", "d", " ", "6", "0", "+", " ",
       "s", "i", "g", "n", "u", "p", "s", " ", "i", "n", " ", "t", "h",
       "e", " ", "f", "i", "r", "s", "t", " ", "w", "e", "e", "k", "." >>

CenterSentence ==
    << "W", "e", " ", "c", "e", "n", "t", "e", "r", " ", "c", "o", "m",
       "m", "u", "n", "i", "t", "y", " ", "m", "e", "m", "b", "e", "r",
       "s", " ", "a", "s", " ", "e", "x", "p", "e", "r", "t", "s", " ",
       "i", "n", " ", "e", "v", "e", "r", "y", " ", "d", "e", "s", "i",
       "g", "n", " ", "c", "h", "o", "i", "c", "e", "." >>

PartnershipSentence ==
    << "T", "h", "e", " ", "p", "r", "o", "g", "r", "a", "m", " ", "w",
       "a", "s", " ", "d", "e", "s", "i", "g", "n", "e", "d", " ", "i",
       "n", " ", "p", "a", "r", "t", "n", "e", "r", "s", "h", "i", "p",
       " ", "w", "i", "t", "h", " ", "t", "e", "n", "a", "n", "t", " ",
       "l", "e", "a", "d", "e", "r", "s", " ", "a", "c", "r", "o", "s",
       "s", " ", "t", "h", "e", " ", "c", "i", "t", "y", "." >>

PercentSentence ==
    << "M", "o", "r", "e", " ", "t", "h", "a", "n", " ", "8", "0", "%",
       " ", "o", "f", " ", "g", "r", "a", "d", "u", "a", "t", "e", "s",
       " ", "l", "a", "u", "n", "c", "h", "e", "d", " ", "a", " ", "v",
       "e", "n", "t", "u", "r", "e", " ", "w", "i", "t", "h", "i", "n",
       " ", "a", " ", "y", "e", "a", "r", "." >>

ChampionSentence ==
    << "W", "e", " ", "c", "h", "a", "m", "p", "i", "o", "n", " ", "f",
       "o", "u", "n", "d", "e", "r", "s", " ", "w", "h", "o", " ", "b",
       "u", "i", "l", "d", " ", "f", "o", "r", " ", "t", "h", "e", "i",
       "r", " ", "o", "w", "n", " ", "b", "l", "o", "c", "k", "s", " ",
       "a", "n", "d", " ", "n", "e", "i", "g", "h", "b", "o", "r", "s", "." >>

SolarSentence ==
    << "C", "a", "m", "b", "i", "o", " ", "S", "o", "l", "a", "r", " ",
       "t", "r", "a", "i", "n", "s", " ", "r", "e", "s", "i", "d", "e",
       "n", "t", "s", " ", "f", "o", "r", " ", "c", "a", "r", "e", "e",
       "r", "s", " ", "i", "n", " ", "c", "l", "e", "a", "n", " ", "e",
       "n", "e", "r", "g", "y", "." >>

BeliefSentence ==
    << "W", "e", " ", "f", "i", "r", "m", "l", "y", " ", "b", "e", "l",
       "i", "e", "v", "e", " ", "t", "h", "a", "t", " ", "t", "h", "o",
       "s", "e", " ", "c", "l", "o", "s", "e", "s", "t", " ", "t", "o",
       " ", "t", "h", "e", " ", "i", "s", "s", "u", "e", "s", " ", "c",
       "a", "n", " ", "s", "o", "l", "v", "e", " ", "t", "h", "e", "m", "." >>

QuoteSentence ==
    << "A", " ", "g", "r", "a", "d", "u", "a", "t", "e", " ", "s", "a",
       "i", "d", " ", "\"", "t", "h", "i", "s", " ", "c", "o", "u", "r",
       "s", "e", " ", "c", "h", "a", "n", "g", "e", "d", " ", "h", "o",
       "w", " ", "I", " ", "s", "e", "e", " ", "m", "y", " ", "f", "u",
       "t", "u", "r", "e", "\"", " ", "i", "n", " ", "M", "a", "y", "." >>

SentencePool ==
    << FultonSentence,
       CenterSentence,
       PartnershipSentence,
       PercentSentence,
       ChampionSentence,
       SolarSentence,
       BeliefSentence,
       QuoteSentence >>

-----------------------------------------------------------------------------
(* An extraction function or chunk_text called on its own, once per        *)
(* behaviour, on a document of up to MaxSentences sentences of the pool.   *)

MaxSentences == 2

RECURSIVE JoinSentences(_)
JoinSentences(picks) ==
    IF picks = << >> THEN << >>
    ELSE IF Len(picks) = 1 THEN SentencePool[picks[1]]
    ELSE SentencePool[picks[1]] \o << " " >> \o JoinSentences(Tail(picks))

Documents ==
    { JoinSentences(picks) :
        picks \in UNION { [ 1..n -> 1..Len(SentencePool) ] : n \in 1..MaxSentences } }

\* The arguments chunk_text is called with: the defaults, and sizes that
\* make the documents of the model longer than one chunk.
ChunkArguments == { << CHUNK_SIZE, CHUNK_OVERLAP >>, << 40, 10 >> }

Extracted(function, text, fragments) ==
    [ called |-> TRUE, function |-> function, text |-> text, fragments |-> fragments ]

ExtractVoicePhrases(text) ==
    /\ ~ex.called
    /\ ex' = Extracted("extract_voice_phrases", text, extract_voice_phrases(text))
    /\ UNCHANGED << fm, rf, ck, collections, ret, auto_validate, auto_fix, gs, calls, fa, app, rb, sa, vs >>

ExtractDataMetrics(text) ==
    /\ ~ex.called
    /\ ex' = Extracted("extract_data_metrics", text, extract_data_metrics(text))
    /\ UNCHANGED << fm, rf, ck, collections, ret, auto_validate, auto_fix, gs, calls, fa, app, rb, sa, vs >>

ExtractParticipantVoices(text) ==
    /\ ~ex.called
    /\ ex' = Extracted("extract_participant_voices", text, extract_participant_voices(text))
    /\ UNCHANGED << fm, rf, ck, collections, ret, auto_validate, auto_fix, gs, calls, fa, app, rb, sa, vs >>

ExtractCodesignLanguage(text) ==
    /\ ~ex.called
    /\ ex' = Extracted("extract_codesign_language", text, extract_codesign_language(text))
    /\ UNCHANGED << fm, rf, ck, collections, ret, auto_validate, auto_fix, gs, calls, fa, app, rb, sa, vs >>

ExtractProgramDescriptions(text) ==
    /\ ~ex.called
    /\ ex' = Extracted("extract_program_descriptions", text,
                       extract_program_descriptions(text))
    /\ UNCHANGED << fm, rf, ck, collections, ret, auto_validate, auto_fix, gs, calls, fa, app, rb, sa, vs >>

ChunkText(text, arguments) ==
    /\ ~ex.called
    /\ ex' = LET chunks == chunk_text(text, arguments[1], arguments[2])
             IN  Extracted("chunk_text", text,
                           [ n \in 1..Len(chunks) |->
                               [ text |-> chunks[n], category |-> "chunk" ] ])
    /\ UNCHANGED << fm, rf, ck, collections, ret, auto_validate, auto_fix, gs, calls, fa, app, rb, sa, vs >>

InitExtract ==
    /\ fm = NoFormatting /\ rf = NoRefinement /\ ck = NoChunking
    /\ ret = NoRetrieval /\ gs = IdleSection /\ calls = << >> /\ fa = NoApplication
    /\ auto_validate = TRUE /\ auto_fix = TRUE /\ app = IdleApp(EmptyDict)
    /\ rb = NoRebuild /\ sa = NoStoreCalls /\ vs = NoScoring
    /\ collections = NoItems
    /\ ex = NoExtraction

NextExtract ==
    \/ \E text \in Documents : ExtractVoicePhrases(text)
    \/ \E text \in Documents : ExtractDataMetrics(text)
    \/ \E text \in Documents : ExtractParticipantVoices(text)
    \/ \E text \in Documents : ExtractCodesignLanguage(text)
    \/ \E text \in Documents : ExtractProgramDescriptions(text)
    \/ \E text \in Documents, arguments \in ChunkArguments : ChunkText(text, arguments)

SpecExtract == InitExtract /\ [][NextExtract]_vars

-----------------------------------------------------------------------------
(* format_retrieval_for_prompt called on its own, once per behaviour, on   *)
(* a dict that holds any of the six keys, in one of KeyOrders, with lists  *)
(* of up to MaxItems items.                                                *)

MaxItems == 2

\* The n-th item a collection returns.  The first item carries the metadata
\* the function reads, the later ones carry none of it.
ItemOf(key, n) ==
    [ text     |-> key \o " text " \o ToString(n),
      metadata |-> IF n = 1
                   THEN [ filename |-> "a.txt", category |-> "mission",
                          program |-> "Journey" ]
                   ELSE [ chunk_index |-> n ] ]

ItemLists(key) ==
    { [ n \in 1..len |-> ItemOf(key, n) ] : len \in 0..MaxItems }

\* Orders in which the caller's dict may hold its keys.
KeyOrders ==
    { DisplayOrder,
      << "programs", "codesign", "quotes", "data", "voice", "content" >>,
      << "quotes", "content", "programs", "voice", "codesign", "data" >> }

\* What a dict holds for a key: nothing, or one of the lists.
Holdings(key) == { None } \cup { Some(items) : items \in ItemLists(key) }

RECURSIVE DictOf(_, _, _)
DictOf(order, held, k) ==
    IF k > Len(order) THEN << >>
    ELSE (IF held[order[k]] = None THEN << >>
          ELSE << << order[k], held[order[k]][1] >> >>)
         \o DictOf(order, held, k + 1)

ResultDicts ==
    { DictOf(order, held, 1) :
        order \in KeyOrders,
        held \in [ content : Holdings("content"), voice : Holdings("voice"),
                   data : Holdings("data"), quotes : Holdings("quotes"),
                   codesign : Holdings("codesign"),
                   programs : Holdings("programs") ] }

FormatRetrievalForPrompt(results) ==
    /\ ~fm.called
    /\ fm' = [ called |-> TRUE, results |-> results,
               output |-> format_retrieval_for_prompt(results) ]
    /\ UNCHANGED << rf, ck, collections, ret, auto_validate, auto_fix, gs, calls, fa, app, rb, sa, vs, ex >>

InitFormat ==
    /\ ret = NoRetrieval /\ gs = IdleSection /\ calls = << >> /\ fa = NoApplication
    /\ auto_validate = TRUE /\ auto_fix = TRUE /\ app = IdleApp(EmptyDict)
    /\ rb = NoRebuild /\ sa = NoStoreCalls /\ vs = NoScoring /\ ex = NoExtraction
    /\ rf = NoRefinement /\ ck = NoChunking
    /\ collections = NoItems
    /\ fm = NoFormatting

\* One call per behaviour.
NextFormat ==
    /\ ~fm.called
    /\ \E results \in ResultDicts : FormatRetrievalForPrompt(results)

SpecFormat == InitFormat /\ [][NextFormat]_vars

-----------------------------------------------------------------------------
(* refine_section of GrantApplicationGenerator (generator.py) and of       *)
(* EnhancedGrantApplicationGenerator (enhanced_generator.py).  A response  *)
(* of the model is what refine_section reads of it: the number of          *)
(* characters and of spaces between its first and last non-blank           *)
(* character, the number of blanks around them, the slop phrases that      *)
(* occur in it ignoring case, and what the Voice Validator reads.          *)

MaxOuter == 2

ai_slop_phrases ==
    { "core mission is to", "carefully crafted", "testament to",
      "transformative movement", "pathways that challenge",
      "dedicated to creating", "commitment to excellence",
      "proven track record", "state-of-the-art", "cutting-edge",
      "we are proud to", "we are excited to", "we are committed to",
      "we are dedicated to" }

SlopLimit == 3

CorruptionMinLength == 100

MinSpacePercent == 10

Response(tag, length, spaces, outer, slop, voice) ==
    [ tag |-> tag, length |-> length + outer, spaces |-> spaces + outer,
      outer |-> outer, slop |-> slop, voice |-> voice ]

\* refined_text.strip(): the blanks around the text are removed.
StripText(text) ==
    [ text EXCEPT !.length = text.length - text.outer,
                  !.spaces = text.spaces - text.outer,
                  !.outer = 0 ]

\* sum(1 for phrase in ai_slop_phrases if phrase.lower() in refined_text.lower())
slop_count(refined_text) ==
    Cardinality({ phrase \in ai_slop_phrases : phrase \in refined_text.slop })

\* space_ratio < 0.10, with space_ratio = count(' ') / len
LooksCorrupted(refined_text) ==
    /\ refined_text.length > CorruptionMinLength
    /\ 100 * refined_text.spaces < MinSpacePercent * refined_text.length

\* GrantApplicationGenerator.refine_section: the string it returns, None
\* when the exception of the model call is re-raised.
refine_section(original_text, response) ==
    IF response = None THEN [ raised |-> TRUE, returned |-> None ]
    ELSE LET refined_text == StripText(response[1])
         IN  [ raised |-> FALSE,
               returned |->
                   IF slop_count(refined_text) >= SlopLimit
                   THEN Some(original_text)
                   ELSE IF LooksCorrupted(refined_text)
                   THEN Some(original_text)
                   ELSE Some(refined_text) ]

\* EnhancedGrantApplicationGenerator.refine_section: the "text" and the
\* "voice_score" of the dict it returns.
refine_section_enhanced(original_text, response, section_name, validate) ==
    IF response = None
    THEN [ raised |-> TRUE, returned |-> None, voice_score |-> None ]
    ELSE LET refined_text == StripText(response[1])
         IN  [ raised |-> FALSE,
               returned |-> Some(refined_text),
               voice_score |->
                   IF validate
                   THEN Some(calculate_voice_score(refined_text.voice,
                                                   section_name).score)
                   ELSE None ]

\* The text a section holds before it is refined.
OriginalText == Response("original", 120, 20, 0, {}, Text(0, 0, 0))

SlopSets ==
    { {},
      { "cutting-edge", "testament to" },
      { "cutting-edge", "testament to", "we are proud to" },
      ai_slop_phrases }

\* Responses of the model: short and long, with no space, with just under
\* and just over one space in ten characters, and with ordinary spacing.
RefinedTexts ==
    { Response("refined", length, spaces, outer, slop, voice) :
        length \in { 100, 101, 110 },
        spaces \in { 0, 10, 11, 20 },
        outer \in 0..MaxOuter,
        slop \in SlopSets,
        voice \in { Text(0, 0, 0), Text(4, 0, 0) } }

Refined(generator, original_text, response, outcome) ==
    [ called |-> TRUE, generator |-> generator, original_text |-> original_text,
      response |-> response, raised |-> outcome.raised,
      returned |-> outcome.returned ]

RefineSection(response) ==
    /\ ~rf.called
    /\ rf' = Refined("generator", OriginalText, response,
                     refine_section(OriginalText, response))
    /\ UNCHANGED << fm, ck, collections, ret, auto_validate, auto_fix, gs, calls, fa, app, rb, sa, vs, ex >>

RefineSectionEnhanced(response, section_name) ==
    /\ ~rf.called
    /\ rf' = Refined("enhanced_generator", OriginalText, response,
                     refine_section_enhanced(OriginalText, response,
                                             section_name, auto_validate))
    /\ UNCHANGED << fm, ck, collections, ret, auto_validate, auto_fix, gs, calls, fa, app, rb, sa, vs, ex >>

InitRefine ==
    /\ ret = NoRetrieval /\ gs = IdleSection /\ calls = << >> /\ fa = NoApplication
    /\ auto_validate \in BOOLEAN /\ auto_fix = TRUE /\ app = IdleApp(EmptyDict)
    /\ rb = NoRebuild /\ sa = NoStoreCalls /\ vs = NoScoring /\ ex = NoExtraction
    /\ fm = NoFormatting /\ ck = NoChunking
    /\ collections = NoItems
    /\ rf = NoRefinement

NextRefine ==
    \/ \E response \in { None } \cup { Some(text) : text \in RefinedTexts } :
           RefineSection(response)
    \/ \E response \in { None } \cup { Some(text) : text \in RefinedTexts },
          section_name \in { EmptyName, MethodologySection } :
           RefineSectionEnhanced(response, section_name)

SpecRefine == InitRefine /\ [][NextRefine]_vars

-----------------------------------------------------------------------------
(* chunk_text, one iteration of its while loop at a time.  The frame holds *)
(* the arguments, `start`, the list `chunks` and, as history, the `start`  *)
(* and `end` of every iteration made.                                      *)

MaxText == 10
MaxChunks == 12

\* A text of `len` characters: a period at position `dot`, a blank or a
\* newline at position `blank` (0: none), letters elsewhere.
TextWith(len, dot, blank, c) ==
    [ i \in 1..len |-> IF i = dot THEN "." ELSE IF i = blank THEN c ELSE "a" ]

ChunkTexts ==
    { TextWith(len, dot, blank, c) :
        len \in 0..MaxText, dot \in 0..MaxText, blank \in 0..MaxText,
        c \in { " ", "\n" } }

\* (chunk_size, overlap): the configured values, and sizes below the
\* lengths of the texts, without overlap, with a small one and with the
\* largest one.
ChunkConfigurations ==
    { << CHUNK_SIZE, CHUNK_OVERLAP >>,
      << 7, 0 >>, << 7, 2 >>, << 7, 6 >>, << 4, 1 >> }

\* chunk_text is entered: the early return for a text of at most
\* chunk_size characters, or the loop from start = 0.
EnterChunkText(text, chunk_size, overlap) ==
    [ pc         |-> IF Len(text) <= chunk_size THEN "returned" ELSE "loop",
      text       |-> text,
      chunk_size |-> chunk_size,
      overlap    |-> overlap,
      start      |-> 0,
      chunks     |-> IF Len(text) <= chunk_size THEN << text >> ELSE << >>,
      cuts       |-> << >> ]

\* The body of the while loop, once.
LoopBody(frame) ==
    LET step == Iteration(frame.text, frame.chunk_size, frame.overlap, frame.start)
    IN  [ frame EXCEPT
            !.chunks = Append(@, step.chunk),
            !.cuts = Append(@, [ start |-> frame.start, end |-> step.end,
                                 breaks |-> step.breaks, taken |-> step.taken ]),
            !.start = step.start ]

CallChunkText(text, configuration) ==
    /\ ck.pc = "idle"
    /\ ck' = EnterChunkText(text, configuration[1], configuration[2])
    /\ UNCHANGED << fm, rf, collections, ret, auto_validate, auto_fix, gs, calls, fa, app, rb, sa, vs, ex >>

\* while start < len(text): one more iteration.
ChunkIterates ==
    /\ ck.pc = "loop"
    /\ ck.start < Len(ck.text)
    /\ Len(ck.chunks) < MaxChunks
    /\ ck' = LoopBody(ck)
    /\ UNCHANGED << fm, rf, collections, ret, auto_validate, auto_fix, gs, calls, fa, app, rb, sa, vs, ex >>

\* The loop condition fails: return chunks.
ChunkReturns ==
    /\ ck.pc = "loop"
    /\ ck.start >= Len(ck.text)
    /\ ck' = [ ck EXCEPT !.pc = "returned" ]
    /\ UNCHANGED << fm, rf, collections, ret, auto_validate, auto_fix, gs, calls, fa, app, rb, sa, vs, ex >>

InitChunk ==
    /\ ret = NoRetrieval /\ gs = IdleSection /\ calls = << >> /\ fa = NoApplication
    /\ auto_validate = TRUE /\ auto_fix = TRUE /\ app = IdleApp(EmptyDict)
    /\ rb = NoRebuild /\ sa = NoStoreCalls /\ vs = NoScoring /\ ex = NoExtraction
    /\ fm = NoFormatting /\ rf = NoRefinement
    /\ collections = NoItems
    /\ ck = NoChunking

NextChunk ==
    \/ /\ ck.pc = "idle"
       /\ \E text \in ChunkTexts, configuration \in ChunkConfigurations :
              CallChunkText(text, configuration)
    \/ ChunkIterates
    \/ ChunkReturns

SpecChunk == InitChunk /\ [][NextChunk]_vars

-----------------------------------------------------------------------------
(* Properties of generate_section, over the history of its model calls.    *)

Ended == gs.pc \in {"returned", "raised"}

\* The validator's score of the text call c returned, in the running section.
ScoreOf(c) == calculate_voice_score(c.text[1], gs.section_name).score

\* Call c completed and was scored.
WasScored(c) == c.ok /\ auto_validate

ScoredCalls == { i \in 1..Len(calls) : WasScored(calls[i]) }

\* Call c is one after which the section is accepted.
Accepting(c) == c.ok /\ (~auto_validate \/ ~auto_fix \/ ScoreOf(c) >= 85)

\* Call c completed and was scored below the acceptance threshold.
BelowThreshold(c) == WasScored(c) /\ ScoreOf(c) < 85

\* C1: when generate_section with validation returns after at least one
\* scored attempt, the returned text is the text of a completed attempt
\* (never None), the returned voice_score is the maximum score over the
\* scored attempts, and it is the score of the returned text.
C1_BestAttemptReturned ==
    (gs.pc = "returned" /\ ScoredCalls # {}) =>
        LET r == gs.result[1]
        IN  /\ r.text # None
            /\ \E i \in ScoredCalls : calls[i].text = r.text
            /\ r.voice_score # None
            /\ \A i \in ScoredCalls : ScoreOf(calls[i]) <= r.voice_score[1]
            /\ calculate_voice_score(r.text[1], gs.section_name).score = r.voice_score[1]

\* C2: when an earlier attempt completed and was scored below the threshold
\* and a later attempt's model call failed, the finished section has returned
\* the best completed attempt's text instead of ending with a failure.
C2_CompletedAttemptNeverDiscarded ==
    (Ended /\ \E i, j \in 1..Len(calls) :
                 i < j /\ BelowThreshold(calls[i]) /\ ~calls[j].ok) =>
        /\ gs.pc = "returned"
        /\ gs.result[1].text # None
        /\ \E i \in ScoredCalls :
               /\ calls[i].text = gs.result[1].text
               /\ \A k \in ScoredCalls : ScoreOf(calls[k]) <= ScoreOf(calls[i])

\* C3: with auto_validate and auto_fix, when every model call succeeded and
\* returned the same text scoring below 85, the finished section made exactly
\* max_attempts calls, did not raise, and returned that text with its score.
C3_FixedLowTextReturned ==
    (/\ Ended /\ auto_validate /\ auto_fix
     /\ gs.max_attempts >= 1 /\ calls # << >>
     /\ \A i \in 1..Len(calls) : calls[i].ok /\ calls[i].text = calls[1].text
     /\ ScoreOf(calls[1]) < 85) =>
        /\ Len(calls) = gs.max_attempts
        /\ gs.pc = "returned"
        /\ gs.result[1].text = calls[1].text
        /\ gs.result[1].voice_score = Some(ScoreOf(calls[1]))

\* C4: a failed model call on an attempt before the last leaves the section
\* running with the next attempt (made or about to be made); a failed model
\* call on the last attempt (index max_attempts - 1) ends the section raised.
C4_FailureHandling ==
    \A i \in 1..Len(calls) :
        ~calls[i].ok =>
            IF calls[i].attempt < gs.max_attempts - 1
            THEN \/ i < Len(calls) /\ calls[i + 1].attempt = calls[i].attempt + 1
                 \/ i = Len(calls) /\ gs.pc = "attempt"
                                   /\ gs.attempt = calls[i].attempt + 1
            ELSE i = Len(calls) /\ gs.pc = "raised"

\* An early failure was survived and the failure of the last attempt raised.
C4_Witness ==
    /\ gs.pc = "raised" /\ gs.max_attempts = 3 /\ Len(calls) = 3
    /\ ~calls[1].ok /\ calls[2].ok /\ ~calls[3].ok

\* C6: no model call follows the first attempt that is scored >= 85, or that
\* succeeds with validation disabled, or that is scored with auto_fix
\* disabled; and no more than max_attempts calls are made.
C6_NoCallAfterAcceptance ==
    /\ Len(calls) <= gs.max_attempts
    /\ (Len(calls) = gs.max_attempts => gs.pc # "attempt")
    /\ \A i \in 1..Len(calls) :
           Accepting(calls[i]) => i = Len(calls) /\ gs.pc = "returned"

\* The second attempt of three is scored exactly 85 and ends the run.
C6_Witness ==
    /\ auto_validate /\ auto_fix /\ gs.max_attempts = 3 /\ Len(calls) = 2
    /\ BelowThreshold(calls[1])
    /\ calls[2].ok /\ ScoreOf(calls[2]) = 85
    /\ gs.pc = "returned"

\* Call i + 1 is a retry that follows a below-threshold scored attempt.
RetryAfterLowScore(i) == i < Len(calls) /\ BelowThreshold(calls[i])

\* C7 as stated: for every initial temperature, a retry after a
\* below-threshold score uses the previous temperature plus 0.1 capped at
\* 0.9, the temperature never decreases from one attempt to the next, and
\* after such a retry it never exceeds 0.9.
C7_TemperatureNeverDecreases ==
    \A i \in 1..Len(calls) :
        /\ RetryAfterLowScore(i) =>
               calls[i + 1].temperature = Min(90, calls[i].temperature + 10)
        /\ i < Len(calls) => calls[i + 1].temperature >= calls[i].temperature
        /\ (\E j \in 1..(i - 1) : RetryAfterLowScore(j)) => calls[i].temperature <= 90

\* C7 amended: the temperature never decreases when the initial temperature
\* is at most 0.9; the retry rule and the bound after a retry hold for every
\* initial temperature.
C7_TemperatureSchedule ==
    \A i \in 1..Len(calls) :
        /\ RetryAfterLowScore(i) =>
               calls[i + 1].temperature = Min(90, calls[i].temperature + 10)
        /\ (i < Len(calls) /\ calls[1].temperature <= 90) =>
               calls[i + 1].temperature >= calls[i].temperature
        /\ (\E j \in 1..(i - 1) : RetryAfterLowScore(j)) => calls[i].temperature <= 90

\* A retry from 0.85 is capped at 0.9 and the next retry stays there.
C7_Witness ==
    /\ Len(calls) = 3
    /\ RetryAfterLowScore(1) /\ RetryAfterLowScore(2)
    /\ calls[1].temperature = 85 /\ calls[2].temperature = 90
    /\ calls[3].temperature = 90

-----------------------------------------------------------------------------
(* Properties of generate_full_application and its caller.                 *)

RECURSIVE SumOver(_, _)
SumOver(S, f) ==
    IF S = {} THEN 0
    ELSE LET x == CHOOSE y \in S : TRUE
         IN  f[x] + SumOver(S \ {x}, f)

\* C5: when a section of generate_full_application fails, the caller still
\* holds the texts of the sections generated before it.
C5_PartialApplicationReachesCaller ==
    (app.pc = "error" /\ app.received = None) =>
        \A k \in 1..Len(app.completed) :
            /\ app.completed[k].section_name \in DOMAIN app.generated_sections
            /\ app.generated_sections[app.completed[k].section_name]
                   = app.completed[k].text

\* C8: in the application generate_full_application returns, avg_voice_score
\* is the mean, rounded to one decimal, of voice_score over the sections with
\* a recorded score (0 included), and total_tokens is the sum of tokens_used.
C8_MeanOverRecordedScores ==
    app.received # None =>
        LET a == app.received[1]
            meta == a.section_metadata
            recorded == { n \in DOMAIN meta : meta[n].voice_score # None }
        IN  /\ a.total_tokens
                   = SumOver(DOMAIN meta, [ n \in DOMAIN meta |-> meta[n].tokens_used ])
            /\ recorded # {} =>
                   a.avg_voice_score
                       = Round1(SumOver(recorded,
                                        [ n \in recorded |-> meta[n].voice_score[1] ]),
                                Cardinality(recorded))

-----------------------------------------------------------------------------
(* Properties of retrieve_multi_layer.                                     *)

\* The same characters up to letter case.
SameIgnoringCase(s, t) ==
    Len(s) = Len(t) /\ \A i \in 1..Len(s) : LowerChar(s[i]) = LowerChar(t[i])

Queried == { ret.queries[i].collection : i \in 1..Len(ret.queries) }

\* C9: a retrieval queries full_content, voice_phrases, data_metrics and
\* program_descriptions; participant_voices exactly for Need Statement and
\* Evaluation Plan, codesign_examples exactly for Methodology and Project
\* Description, compared case-insensitively; a queried collection yields
\* its nearest fragments and a collection not queried yields the empty list.
C9_SectionFanOut ==
    (ret.called /\ ~ret.raised) =>
        /\ { "full_content", "voice_phrases", "data_metrics",
             "program_descriptions" } \subseteq Queried
        /\ "participant_voices" \in Queried <=>
               \/ SameIgnoringCase(ret.section_name, NeedStatement)
               \/ SameIgnoringCase(ret.section_name, EvaluationPlan)
        /\ "codesign_examples" \in Queried <=>
               \/ SameIgnoringCase(ret.section_name, MethodologySection)
               \/ SameIgnoringCase(ret.section_name, ProjectDescription)
        /\ Cardinality(Queried) = Len(ret.queries)
        /\ \A i \in 1..Len(CollectionKeys) :
               LET key == CollectionKeys[i]
                   got == ret.results[ResultKeyOf(key)]
               IN  IF key \in Queried
                   THEN (got = << >>) <=> (collections[key] = {})
                   ELSE got = << >>

\* An upper-case "NEED STATEMENT" gets quotes, and no co-design examples
\* although the store holds some.
C9_Witness ==
    /\ ret.called /\ ~ret.raised
    /\ ret.section_name = NeedStatementUpper
    /\ ret.results["quotes"] # << >>
    /\ collections["codesign_examples"] # {}
    /\ ret.results["codesign"] = << >>

\* C10: one retrieval makes exactly one Embedding Provider call, and each
\* of its four to six collection queries is given that call's vector.
C10_OneEmbeddingReused ==
    ret.called =>
        /\ ret.embed_calls = 1
        /\ ret.raised => ret.queries = << >>
        /\ ~ret.raised =>
               /\ Len(ret.queries) \in 4..6
               /\ \A i \in 1..Len(ret.queries) :
                      ret.queries[i].vec = ret.query_embedding[1]

\* Five queries were issued, each with the same vector.
C10_Witness ==
    /\ ret.called /\ ~ret.raised
    /\ Len(ret.queries) = 5
    /\ \A i \in 1..5 : ret.queries[i].vec = MaxFrag + 1

-----------------------------------------------------------------------------
(* Properties of rebuild_database and of the store it fills.               *)

Answered == rb.pc # "idle" /\ rb.confirmation # None

\* Nothing the store held when rebuild_database was called is gone.
PriorKept == \A key \in Keys : rb.prior[key] \subseteq collections[key]

\* C11 as stated: in every run of rebuild_database no collection is deleted
\* unless the operator answered exactly "yes"; after any other answer
\* clear_all_collections is not called, no document is ingested and the six
\* collections hold what they held before.
C11_ClearedOnlyAfterYes ==
    rb.pc # "idle" =>
        /\ (rb.cleared \/ ~PriorKept) => rb.confirmation = Some(lit_yes)
        /\ (Answered /\ rb.confirmation # Some(lit_yes)) =>
               /\ ~rb.cleared
               /\ rb.last = None
               /\ collections = rb.prior

\* C11, amended: the same with "yes" in any letter case, which is what
\* confirmation.lower() == "yes" accepts.
C11_ClearedOnlyAfterYesInAnyCase ==
    rb.pc # "idle" =>
        /\ (rb.cleared \/ ~PriorKept) =>
               Answered /\ SameIgnoringCase(rb.confirmation[1], lit_yes)
        /\ (Answered /\ ~SameIgnoringCase(rb.confirmation[1], lit_yes)) =>
               /\ ~rb.cleared
               /\ rb.last = None
               /\ rb.returned = "aborted"
               /\ collections = rb.prior

\* A run over a store with fragments in which the operator answered "no"
\* and the call returned.
C11_Witness ==
    /\ rb.pc = "done"
    /\ rb.confirmation = Some(<< "n", "o" >>)
    /\ rb.directory.files # << >>
    /\ \E key \in Keys : rb.prior[key] # {}
    /\ collections = rb.prior

\* C12: whenever get_all_stats is called right after clear_all_collections,
\* from any store contents and also when one delete_collection raised, it
\* reports 0 for each of the six collections and 0 for total_items.
C12_ClearThenStatsZero ==
    \A n \in 1..(Len(sa) - 1) :
        (sa[n].op = "clear_all_collections" /\ sa[n + 1].op = "get_all_stats") =>
            /\ \A key \in Keys : sa[n + 1].stats.counts[key] = 0
            /\ sa[n + 1].stats.total_items = 0

\* Two consecutive calls of add_document_enhanced under one filename, the
\* first of which returned.
Reingested(n) ==
    /\ n + 1 <= Len(sa)
    /\ sa[n].op = "add_document_enhanced" /\ sa[n + 1].op = "add_document_enhanced"
    /\ sa[n].filename = sa[n + 1].filename
    /\ ~sa[n].raised

\* C13: ingesting under a filename that was already ingested overwrites and
\* does not duplicate: with the same text the second call leaves every
\* collection with the ids (and so the counts) the first call left, and
\* every id of the second call that was already stored holds the fragment
\* of the second text afterwards.
C13_ReingestionOverwrites ==
    \A n \in 1..Len(sa) :
        Reingested(n) =>
            /\ sa[n].text = sa[n + 1].text =>
                   \A key \in Keys :
                       IdsOf(sa[n + 1].after[key]) = IdsOf(sa[n].after[key])
            /\ \A key \in Keys :
                   \A item \in ItemsOf(sa[n + 1].text, sa[n + 1].filename, key) :
                       item.id \in IdsOf(sa[n].after[key]) =>
                           item \in sa[n + 1].after[key]

InLoop == rb.pc = "loop" \/ (rb.pc = "done" /\ rb.returned = "complete")

\* C14: one file never aborts the batch.  Every file the loop has handled
\* is counted once, as successful when add_document_enhanced returned and
\* as failed after an empty text, a read error or an exception; after a
\* failure the loop goes on with the next file; and when the loop has
\* ended successful + failed is the number of files found.
C14_EveryFileCounted ==
    InLoop =>
        /\ rb.successful + rb.failed = rb.i - 1
        /\ rb.last # None =>
               LET entry == rb.last[1]
               IN  /\ entry.outcome = "ok" =>
                          /\ rb.successful = entry.successful + 1
                          /\ rb.failed = entry.failed
                   /\ entry.outcome # "ok" =>
                          /\ rb.failed = entry.failed + 1
                          /\ rb.successful = entry.successful
                   /\ rb.i <= Len(rb.directory.files) => rb.pc = "loop"
        /\ rb.pc = "done" =>
               rb.successful + rb.failed = Len(rb.directory.files)

\* A finished run over a full directory in which a file failed and the
\* last file was ingested.
C14_Witness ==
    /\ rb.pc = "done" /\ rb.returned = "complete"
    /\ Len(rb.directory.files) = MaxFiles
    /\ rb.failed >= 1
    /\ rb.last # None /\ rb.last[1].outcome = "ok"
    /\ rb.successful + rb.failed = MaxFiles

\* The latest file is one whose add_document_enhanced was left by an
\* exception of embed_documents.
EmbeddingFailed ==
    /\ InLoop /\ rb.last # None
    /\ rb.last[1].outcome = "exception"
    /\ rb.last[1].failed_call = "embed"

\* C15: when an embedding call fails inside add_document_enhanced, the
\* collection of the failing step and every later collection of the order
\* receive nothing of the document, the document is counted once as failed
\* and not as successful, and its counts are not added to total_items.
C15_EmbeddingFailureStopsDocument ==
    EmbeddingFailed =>
        LET entry == rb.last[1]
        IN  /\ \A k \in entry.failed_step..Len(CollectionKeys) :
                   entry.after[CollectionKeys[k]] = entry.before[CollectionKeys[k]]
            /\ rb.failed = entry.failed + 1
            /\ rb.successful = entry.successful
            /\ rb.total_items = entry.total_items

\* An embedding failure in the data_metrics step of a document that has
\* fragments for later collections, after full_content received its chunk.
C15_Witness ==
    /\ EmbeddingFailed
    /\ rb.last[1].failed_step = 3
    /\ rb.last[1].after["full_content"] # rb.last[1].before["full_content"]
    /\ \E k \in 4..Len(CollectionKeys) : rb.last[1].text.frags[CollectionKeys[k]] > 0
    /\ rb.total_items > 0

-----------------------------------------------------------------------------
(* Properties of calculate_voice_score.                                    *)

\* The cuts between the six grade bands.
GradeCuts == { 70, 80, 85, 90, 95 }

Rank(grade) == CHOOSE n \in 1..Len(Grades) : Grades[n] = grade

\* C16: for every text and section name the score lies in [0,100], the
\* grade is the band of the score among the six bands cut at 95, 90, 85, 80
\* and 70, and no higher score has a lower grade.
C16_ScoreRangeAndGradeBands ==
    vs.called =>
        /\ vs.result.score \in 0..100
        /\ \E n \in 1..Len(Grades) : Grades[n] = vs.result.grade
        /\ Rank(vs.result.grade)
               = 1 + Cardinality({ cut \in GradeCuts : cut <= vs.result.score })
        /\ \A higher \in vs.result.score..100 :
               Rank(get_grade(higher)) >= Rank(vs.result.grade)

\* A text whose deductions exceed 100 points: the score is 0, not below,
\* and the grade is the lowest.
C16_Witness ==
    /\ vs.called
    /\ 5 * vs.result.buzzwords + 10 * vs.result.missing_required > 100
    /\ vs.result.score = 0
    /\ vs.result.grade = Grades[1]

\* The text read by the latest call has no forbidden phrase of the list, no
\* vague word and a numeric pattern.
CleanText ==
    /\ vs.called
    /\ vs.text.buzz = 0
    /\ vs.text.vague = 0
    /\ vs.text.numbers

NoDeduction == vs.result.score = 100 /\ vs.result.issues = 0

\* C17 as stated: a text with no forbidden phrase, no vague word and a
\* numeric pattern gets no deduction in any section: score 100, no issue.
C17_CleanTextScores100 == CleanText => NoDeduction

\* C17, amended: the same for a text that does not have "underserved"
\* without "underestimated", in a section that is not one of "methodology"
\* and "project description" (letter case ignored) or with a co-design term
\* in the text.
C17_CleanTextWithRequiredLanguageScores100 ==
    ( /\ CleanText
      /\ ~(vs.text.underserved /\ ~vs.text.underestimated)
      /\ (Lower(vs.section_name) \in CodesignSections => vs.text.codesign) )
    => NoDeduction

\* A clean text with "underserved" beside "underestimated" and a co-design
\* term, scored for the Methodology section.
C17_Witness ==
    /\ CleanText
    /\ vs.text.underserved /\ vs.text.underestimated
    /\ vs.text.codesign
    /\ vs.text.sig = 0
    /\ vs.section_name = MethodologySection
    /\ NoDeduction

\* C18: calculate_voice_score on the text of scenario B returns a score
\* below 70 and an issue list of at least 5 entries.
C18_ScenarioBScoresBelow70 ==
    (vs.called /\ vs.raw = Some(ScenarioBText)) =>
        /\ vs.result.score < 70
        /\ vs.result.issues >= 5

-----------------------------------------------------------------------------
(* Properties of the extraction functions and of chunk_text.               *)

\* part is a contiguous piece of whole.
IsSubstring(part, whole) ==
    part = << >> \/ Contains(part, whole)

\* C19: every fragment an extraction function or chunk_text produces has a
\* text that is a contiguous piece of the document, also when the pattern
\* that found it has several capture groups.
C19_FragmentsAreSubstrings ==
    ex.called =>
        \A n \in 1..Len(ex.fragments) : IsSubstring(ex.fragments[n].text, ex.text)

\* C20: for every document that contains the sentence "At our Fulton Houses
\* pilot, we had 60+ signups in the first week", extract_data_metrics
\* returns a fragment of category statistics whose text contains it.
FultonClaimSentence == SubSeq(FultonSentence, 1, Len(FultonSentence) - 1)

C20_FultonSentenceExtracted ==
    ( /\ ex.called
      /\ ex.function = "extract_data_metrics"
      /\ IsSubstring(FultonClaimSentence, ex.text) )
    => \E n \in 1..Len(ex.fragments) :
           /\ ex.fragments[n].category = "statistics"
           /\ IsSubstring(FultonClaimSentence, ex.fragments[n].text)

-----------------------------------------------------------------------------
(* Properties of format_retrieval_for_prompt.                              *)

\* The position of the header of a collection in the output, 0 when the
\* output does not hold it.
HeaderAt(key) ==
    LET title == Header(key)[Len(Header(key))]
    IN  IF \E i \in 1..Len(fm.output) : fm.output[i] = title
        THEN CHOOSE i \in 1..Len(fm.output) : fm.output[i] = title
        ELSE 0

\* The input holds a list for the key and the list has an item.
Filled(key) ==
    \E n \in 1..Len(fm.results) :
        fm.results[n][1] = key /\ fm.results[n][2] # << >>

\* The dict without the keys whose lists are empty.
WithoutEmpty(results) ==
    SelectSeq(results, LAMBDA pair : pair[2] # << >>)

\* Every piece of the items of a collection is in the output, after the
\* header at position `header`.
ItemsRendered(key, header) ==
    LET items == Get(fm.results, key)[1]
    IN  \A n \in 1..Len(items) :
            \E i \in (header + 1)..Len(fm.output) : fm.output[i] = items[n].text

\* C21: format_retrieval_for_prompt renders the collections in the order
\* content, voice, data, quotes, codesign, programs whatever the order of
\* the keys of its input; a collection whose list is empty or missing
\* contributes nothing, neither a header nor a placeholder; and with all
\* six empty the output is the empty string.
C21_FixedOrderEmptyOmitted ==
    fm.called =>
        LET at == [ key \in ResultKeys |-> HeaderAt(key) ]
            filled == [ key \in ResultKeys |-> Filled(key) ]
        IN  /\ \A a, b \in 1..Len(DisplayOrder) :
                   ( /\ a < b
                     /\ filled[DisplayOrder[a]]
                     /\ filled[DisplayOrder[b]] )
                   => ( /\ 0 < at[DisplayOrder[a]]
                        /\ at[DisplayOrder[a]] < at[DisplayOrder[b]] )
            /\ \A key \in ResultKeys :
                   IF filled[key]
                   THEN at[key] > 0 /\ ItemsRendered(key, at[key])
                   ELSE at[key] = 0
            /\ fm.output = format_retrieval_for_prompt(WithoutEmpty(fm.results))
            /\ (\A key \in ResultKeys : ~filled[key]) => fm.output = << >>

\* A call with the keys in another order than the display order, one
\* collection empty, one missing and the others filled.
C21_Witness ==
    /\ fm.called
    /\ Filled("content") /\ Filled("programs")
    /\ fm.results[1][1] = "programs"
    /\ Get(fm.results, "voice") = Some(<< >>)
    /\ Get(fm.results, "quotes") = None
    /\ HeaderAt("content") = 1
    /\ HeaderAt("programs") > 1

-----------------------------------------------------------------------------
(* Properties of refine_section.                                           *)

\* The refined text is rejected by the guard: fewer than one character in
\* ten is a space in a text of more than 100 characters, or at least 3 of the
\* slop phrases occur in it.
Rejected(refined_text) ==
    \/ /\ refined_text.length > 100
       /\ 10 * refined_text.spaces < refined_text.length
    \/ Cardinality(refined_text.slop) >= 3

\* C22: refine_section, of either generator, returns the refined text of
\* the model or the unchanged text it was given, and it returns the text
\* it was given whenever the refined text has too few spaces or holds at
\* least 3 slop phrases.
C22_RefinementGuard ==
    (rf.called /\ ~rf.raised) =>
        LET refined_text == StripText(rf.response[1])
        IN  /\ rf.returned \in { Some(refined_text), Some(rf.original_text) }
            /\ Rejected(refined_text) => rf.returned = Some(rf.original_text)

-----------------------------------------------------------------------------
(* Properties of the deductions and of the bonus of calculate_voice_score. *)

\* The text is longer than 200 characters and holds no numeric pattern.
MissingData == vs.text.long /\ ~vs.text.numbers

\* The score with the deduction for vague words counted for at most 5
\* occurrences and the deduction for missing data counted apart from it.
ScoreWithSeparateDeductions ==
    100 - 5 * vs.text.buzz
        - 10 * check_required_language(vs.text, vs.section_name)
        - 3 * Min(5, vs.text.vague)
        - (IF MissingData THEN 3 ELSE 0)
        + 5 * vs.text.sig

\* C23: the deduction for vague words is 3 points for each whole-word
\* occurrence, for at most 5 occurrences; and the 3 points for missing
\* specific data, with their issue, are deducted whenever the text is longer
\* than 200 characters and holds no numeric pattern, however many vague
\* words it holds.
C23_VagueCapAndMissingData ==
    vs.called =>
        /\ vs.result.score = Min(100, Max(0, ScoreWithSeparateDeductions))
        /\ vs.result.issues =
               vs.text.buzz + check_required_language(vs.text, vs.section_name)
               + Min(5, vs.text.vague) + (IF MissingData THEN 1 ELSE 0)


\* The signature groups, flat categories and program sub-lists alike, with
\* at least one phrase in the string, letter case ignored.
GroupsPresent(s) ==
    { g \in 1..Len(SIGNATURE_PHRASES) :
        \E p \in 1..Len(SIGNATURE_PHRASES[g]) :
            Contains(Lower(SIGNATURE_PHRASES[g][p]), Lower(s)) }

\* The groups counted for the bonus of the scored text.
BonusGroups ==
    IF vs.raw = None THEN vs.text.sig ELSE Cardinality(GroupsPresent(vs.raw[1]))

-----------------------------------------------------------------------------
(* Properties of the fragment lists of one document.                       *)

\* C25: the fragment list an extraction function returns for a document
\* never holds the same text twice; a quoted passage yields one quote
\* fragment and a sentence that names a program one program description.
C25_NoDuplicateFragments ==
    (ex.called /\ ex.function # "chunk_text") =>
        \A m, n \in 1..Len(ex.fragments) :
            ex.fragments[m].text = ex.fragments[n].text => m = n

-----------------------------------------------------------------------------
(* Properties of chunk_text.                                               *)

\* The offset in the window text[start : start + chunk_size] of its last
\* '.' or newline, -1 when it holds none.
LastBoundary(start) ==
    LET ends == { i \in 0..(ck.chunk_size - 1) :
                    /\ start + i + 1 <= Len(ck.text)
                    /\ ck.text[start + i + 1] \in { ".", "\n" } }
    IN  IF ends = {} THEN 0 - 1 ELSE CHOOSE i \in ends : \A j \in ends : j <= i

\* The positions of the text that chunk n holds: what the iteration took
\* without the blanks at its ends.
Held(n) ==
    LET taken == ck.cuts[n].taken
        inked == { i \in 1..Len(taken) : taken[i] \notin Whitespace }
        lead  == IF inked = {} THEN 0
                 ELSE (CHOOSE i \in inked : \A j \in inked : i <= j) - 1
    IN  { ck.cuts[n].start + lead + i : i \in 1..Len(ck.chunks[n]) }

\* The parts of the claim on the sizes, the cuts and the starts of the
\* chunks of a text longer than chunk_size.
CutsAsDescribed ==
    /\ Len(ck.cuts) = Len(ck.chunks)
    /\ \A n \in 1..Len(ck.chunks) :
           /\ Len(ck.chunks[n]) <= ck.chunk_size
           /\ \A p \in Held(n) :
                  ck.chunks[n][p - (CHOOSE q \in Held(n) : \A r \in Held(n) : q <= r) + 1]
                      = ck.text[p]
           /\ ck.cuts[n].start + ck.chunk_size < Len(ck.text) =>
                  LET boundary == LastBoundary(ck.cuts[n].start)
                  IN  IF 10 * boundary > 7 * ck.chunk_size
                      THEN ck.cuts[n].end = ck.cuts[n].start + boundary + 1
                      ELSE ck.cuts[n].end = ck.cuts[n].start + ck.chunk_size
           /\ n < Len(ck.chunks) =>
                  ck.cuts[n + 1].start = ck.cuts[n].end - ck.overlap

\* C26 as stated: a text of at most chunk_size characters is returned as
\* one chunk; otherwise every chunk has at most chunk_size characters, a
\* chunk that does not reach the end of the text is cut after its last '.'
\* or newline only when that is past 70% of chunk_size and else at
\* chunk_size, every next chunk starts overlap characters before the
\* previous cut, and every character of the text is in a chunk.
C26_ChunksCoverText ==
    ck.pc = "returned" =>
        IF Len(ck.text) <= ck.chunk_size
        THEN ck.chunks = << ck.text >>
        ELSE /\ CutsAsDescribed
             /\ \A p \in 1..Len(ck.text) :
                    \E n \in 1..Len(ck.chunks) : p \in Held(n)

\* C26, amended: the same, with every character of the text that is not
\* whitespace in a chunk; the blanks and newlines at the ends of a chunk
\* are stripped from it.
C26_ChunksCoverTextButStrippedBlanks ==
    ck.pc = "returned" =>
        IF Len(ck.text) <= ck.chunk_size
        THEN ck.chunks = << ck.text >>
        ELSE /\ CutsAsDescribed
             /\ \A p \in 1..Len(ck.text) :
                    ck.text[p] \notin Whitespace =>
                        \E n \in 1..Len(ck.chunks) : p \in Held(n)

\* chunk_text returned the chunks of a text that begins with a blank: the
\* first chunk was cut after a period before chunk_size and lost the blank,
\* the second starts overlap characters before that cut.
C26_Witness ==
    /\ ck.pc = "returned"
    /\ Len(ck.text) > ck.chunk_size
    /\ Len(ck.chunks) >= 2
    /\ ck.text[1] = " "
    /\ ck.cuts[1].breaks
    /\ ck.cuts[1].end < ck.chunk_size
    /\ ck.overlap > 0
    /\ ck.cuts[2].start = ck.cuts[1].end - ck.overlap
    /\ 1 \notin Held(1)


\* C27: chunk_text terminates for every text and every chunk_size >= 1 and
\* overlap with 0 <= overlap < chunk_size: `start` is larger after every
\* iteration of the loop than before it, also when the iteration cut at a
\* sentence boundary.
C27_StartStrictlyIncreases ==
    ck.pc # "idle" =>
        /\ ck.chunk_size >= 1 /\ 0 <= ck.overlap /\ ck.overlap < ck.chunk_size
        /\ \A n \in 1..Len(ck.cuts) :
               ck.cuts[n].start <
                   (IF n < Len(ck.cuts) THEN ck.cuts[n + 1].start ELSE ck.start)

-----------------------------------------------------------------------------
(* Properties of rebuild_database on the order and the extent of its       *)
(* effects.                                                                *)

\* C28: rebuild_database checks that the grants directory exists and holds
\* .txt files before it deletes any collection: a confirmed rebuild of a
\* missing or empty directory returns with the six collections holding
\* what they held before.
C28_DirectoryCheckedBeforeClearing ==
    ( /\ rb.pc = "done"
      /\ rb.returned \in { "no_directory", "no_files" }
      /\ rb.clear_existing
      /\ rb.confirmation = Some(lit_yes) )
    => PriorKept


\* The items of all collections.
TotalStored == SumOver(Keys, [ key \in Keys |-> Cardinality(collections[key]) ])

\* C29: add_document_enhanced adds all fragments of a document or none: when
\* it raises part-way, no collection has gained a fragment of the document;
\* so after a rebuild that began with cleared collections the total_items of
\* the store is the total the rebuild reports for its successful documents.
C29_DocumentAllOrNothing ==
    /\ ( /\ rb.pc \in { "loop", "done" }
         /\ rb.last # None
         /\ rb.last[1].outcome = "exception" )
       => rb.last[1].after = rb.last[1].before
    /\ ( /\ rb.pc = "done"
         /\ rb.returned = "complete"
         /\ rb.cleared )
       => /\ rb.stats[1].total_items = rb.total_items
          /\ TotalStored = rb.total_items

-----------------------------------------------------------------------------
(* Properties of the retrieval and of the prompts of one generate_section  *)
(* run.                                                                    *)

\* The prompt built from the result of the run's retrieval.
PromptOfRetrieval ==
    get_enhanced_section_prompt(
        gs.section_name, format_retrieval_for_prompt(ResultsDict(ret.results)))

\* A step that adds a language-model call to the history.
ModelCalled == Len(calls') = Len(calls) + 1

\* C30: in one generate_section run retrieve_multi_layer is called exactly
\* once, and before the first language-model call: the retrieval record is
\* that of the run's section once the run has begun, a step that retrieves
\* leaves no language-model call in the history, and a step that calls the
\* language model leaves the retrieval as it was.  Every attempt sends the
\* prompt built from the result of that retrieval, and the number of
\* language-model calls is at most max_attempts, whatever the attempts were
\* (scored, accepted or failed).
C30_OneRetrievalSamePrompt ==
    /\ [](gs.pc # "idle" =>
            /\ gs.retrievals = 1
            /\ ret.called /\ ret.section_name = gs.section_name
            /\ (calls # << >> => ~ret.raised)
            /\ (calls # << >> =>
                   LET prompt == PromptOfRetrieval
                   IN  \A i \in 1..Len(calls) : calls[i].prompt = prompt)
            /\ Len(calls) <= gs.max_attempts)
    /\ [][ /\ (ret' # ret => calls' = << >>)
           /\ (ModelCalled => ret' = ret /\ ret.called) ]_vars

\* A run that made all of its calls, one of them failed and two of
\* them scored, with a prompt that shows retrieved content.
C30_Witness ==
    /\ gs.pc = "returned"
    /\ gs.max_attempts = DefaultMaxAttempts /\ Len(calls) = gs.max_attempts
    /\ \E i \in 1..Len(calls) : ~calls[i].ok
    /\ Len(gs.attempts) = 2
    /\ ret.results["content"] # << >>
    /\ calls[1].prompt = PromptOfRetrieval /\ calls[Len(calls)].prompt = calls[1].prompt
====
